---- MODULE Spec2Model ----
(***************************************************************************)
(* Verification model of GO-WP-Domain-Check.                               *)
(*                                                                         *)
(* Three programs of the repository are modelled:                          *)
(*   - the concurrent checker (src/unnamed/part_003, the README followed   *)
(*     by main.go): processDomainsConcurrently fans checkDomain out over   *)
(*     goroutines gated by the buffered channel sem;                       *)
(*   - the proxy prototype in Go (src/WIP-with-proxies/main.go);           *)
(*   - the proxy prototype in PHP (src/php-version/main.php).              *)
(*                                                                         *)
(* Text is modelled by TLA+ strings, character by character: substring     *)
(* search and the regular expressions of the source are computed on the    *)
(* characters.  The network and the name service are the environment:      *)
(* every call draws its outcome from a small pool.                         *)
(***************************************************************************)
EXTENDS Integers, Sequences, FiniteSets, TLC

(***************************************************************************)
(* Strings                                                                 *)
(***************************************************************************)
CharsOf(str) == { SubSeq(str, i, i) : i \in 1..Len(str) }

LowerLetters == "abcdefghijklmnopqrstuvwxyz"
UpperLetters == "ABCDEFGHIJKLMNOPQRSTUVWXYZ"
DigitChars   == "0123456789"

Lower  == CharsOf(LowerLetters)
Upper  == CharsOf(UpperLetters)
Digit  == CharsOf(DigitChars)
Letter == Lower \cup Upper
AlNum  == Letter \cup Digit
AlNumHyphen == AlNum \cup {"-"}
\* [0-9.] of the version patterns
VerChar == Digit \cup {"."}
\* \s of Go's regexp (RE2): [\t\n\f\r ]
SpaceChar == {" ", "\t", "\n", "\f", "\r"}
\* ["'] of the generator patterns
QuoteChar == {"\"", "'"}

CharAt(s, i) == SubSeq(s, i, i)

\* strings.HasPrefix
HasPrefix(s, p) == Len(s) >= Len(p) /\ SubSeq(s, 1, Len(p)) = p

\* the literal lit occurs in s at position i
LitAt(s, i, lit) ==
    /\ i >= 1
    /\ i + Len(lit) - 1 <= Len(s)
    /\ SubSeq(s, i, i + Len(lit) - 1) = lit

\* strings.Contains / strpos(...) !== false
Contains(s, sub) == \E i \in 1..(Len(s) + 1) : LitAt(s, i, sub)

Min(S) == CHOOSE x \in S : \A y \in S : x <= y
Max(S) == CHOOSE x \in S : \A y \in S : x >= y

\* strings.ToLower on ASCII text
LowerOf(c) ==
    IF c \in Upper
    THEN LET k == CHOOSE j \in 1..26 : CharAt(UpperLetters, j) = c
         IN  CharAt(LowerLetters, k)
    ELSE c

\* the texts f[lo], ..., f[hi] put together (halving keeps the evaluation
\* shallow on long texts)
RECURSIVE ConcatRange(_, _, _)
ConcatRange(f, lo, hi) ==
    IF lo > hi THEN ""
    ELSE IF lo = hi THEN f[lo]
         ELSE LET mid == (lo + hi) \div 2
              IN  ConcatRange(f, lo, mid) \o ConcatRange(f, mid + 1, hi)

ToLower(s) ==
    ConcatRange([ i \in 1..Len(s) |-> LowerOf(CharAt(s, i)) ], 1, Len(s))

\* the upper-case form of an ASCII character
UpperOf(c) ==
    IF c \in Lower
    THEN LET k == CHOOSE j \in 1..26 : CharAt(LowerLetters, j) = c
         IN  CharAt(UpperLetters, k)
    ELSE c

\* the k-th smallest element of the set of integers S
Nth(S, k) == CHOOSE p \in S : Cardinality({ q \in S : q < p }) = k - 1

\* s split at every occurrence of the one-character separator sep
Split(s, sep) ==
    LET at    == { i \in 1..Len(s) : CharAt(s, i) = sep }
        n     == Cardinality(at)
        lo(k) == IF k = 1 THEN 1 ELSE Nth(at, k - 1) + 1
        hi(k) == IF k = n + 1 THEN Len(s) ELSE Nth(at, k) - 1
    IN  [ k \in 1..(n + 1) |-> SubSeq(s, lo(k), hi(k)) ]

AllIn(s, cls) == \A i \in 1..Len(s) : CharAt(s, i) \in cls

(***************************************************************************)
(* Regular expressions of the source.  A pattern is a sequence of atoms:   *)
(* a literal, one character of a class, or one-or-more characters of a     *)
(* class.  In every pattern of the source the atom after a + cannot start  *)
(* with a character of the repeated class, so the greedy run is the only   *)
(* way to match and no backtracking is needed.                             *)
(***************************************************************************)
Lit(str)     == [kind |-> "lit", str |-> str, cls |-> {}, neg |-> FALSE]
\* [cls] and [cls]+
One(cls)     == [kind |-> "one", str |-> "", cls |-> cls, neg |-> FALSE]
Plus(cls)    == [kind |-> "plus", str |-> "", cls |-> cls, neg |-> FALSE]
\* [^cls]+
PlusNot(cls) == [kind |-> "plus", str |-> "", cls |-> cls, neg |-> TRUE]
\* an unescaped "." : any character but the line feed
AnyChar      == [kind |-> "one", str |-> "", cls |-> {"\n"}, neg |-> TRUE]

\* the character c is of the class of atom a
InClass(c, a) == IF a.neg THEN c \notin a.cls ELSE c \in a.cls

\* the length of the longest run of characters of the class of a in s from i
RunLen(s, i, a) ==
    LET stop == { j \in i..Len(s) : ~InClass(CharAt(s, j), a) }
    IN  IF stop = {} THEN Len(s) - i + 1 ELSE Min(stop) - i

\* the position after the match of atom a at position i of s, 0 when none
AtomEnd(s, i, a) ==
    IF a.kind = "lit" THEN (IF LitAt(s, i, a.str) THEN i + Len(a.str) ELSE 0)
    ELSE IF a.kind = "one"
         THEN (IF i >= 1 /\ i <= Len(s) /\ InClass(CharAt(s, i), a) THEN i + 1 ELSE 0)
         ELSE (IF RunLen(s, i, a) >= 1 THEN i + RunLen(s, i, a) ELSE 0)

\* the position after the match of atoms k.. of pat at position i, 0 when none
RECURSIVE PatEnd(_, _, _, _)
PatEnd(s, i, pat, k) ==
    IF k > Len(pat) THEN i
    ELSE LET e == AtomEnd(s, i, pat[k])
         IN  IF e = 0 THEN 0 ELSE PatEnd(s, e, pat, k + 1)

\* the start positions at which pat matches in s
MatchStarts(s, pat) == { i \in 1..(Len(s) + 1) : PatEnd(s, i, pat, 1) # 0 }

\* FindStringSubmatch / preg_match: the text of the capturing group, which is
\* atom g of pat, in the leftmost match of pat in s, or NoMatch.  A capture
\* is never empty, so "" is free to stand for no match.
NoMatch == ""
FindSubmatch(s, pat, g) ==
    IF MatchStarts(s, pat) = {} THEN NoMatch
    ELSE LET i    == Min(MatchStarts(s, pat))
             from == PatEnd(s, i, SubSeq(pat, 1, g - 1), 1)
             to   == PatEnd(s, i, SubSeq(pat, 1, g), 1)
         IN  SubSeq(s, from, to - 1)

\* the text of group g in the match of pat that starts at i
GroupAt(s, pat, g, i) ==
    SubSeq(s, PatEnd(s, i, SubSeq(pat, 1, g - 1), 1),
              PatEnd(s, i, SubSeq(pat, 1, g), 1) - 1)

\* FindAllStringSubmatch / preg_match_all for a pattern whose matches cannot
\* overlap: the text of group g in every match, left to right
FindAllSubmatch(s, pat, g) ==
    LET starts == MatchStarts(s, pat)
    IN  [ k \in 1..Cardinality(starts) |-> GroupAt(s, pat, g, Nth(starts, k)) ]

(***************************************************************************)
(* src/unnamed/part_003: validation and classification                     *)
(***************************************************************************)
\* one label of the domain pattern: [a-zA-Z0-9]([a-zA-Z0-9\-]{0,61}[a-zA-Z0-9])?
IsLabel(l) ==
    /\ Len(l) >= 1
    /\ Len(l) <= 63
    /\ CharAt(l, 1) \in AlNum
    /\ CharAt(l, Len(l)) \in AlNum
    /\ AllIn(l, AlNumHyphen)

\* ^([a-zA-Z0-9]([a-zA-Z0-9\-]{0,61}[a-zA-Z0-9])?\.)+[a-zA-Z]{2,}$
isValidDomain(domain) ==
    LET parts == Split(domain, ".")
        n     == Len(parts)
    IN  /\ n >= 2
        /\ \A k \in 1..(n - 1) : IsLabel(parts[k])
        /\ Len(parts[n]) >= 2
        /\ AllIn(parts[n], Letter)

\* ^[4-9]\.\d{1,2}(\.\d{1,2})?$
isValidVersion(version) ==
    LET parts == Split(version, ".")
        n     == Len(parts)
    IN  /\ n \in {2, 3}
        /\ Len(parts[1]) = 1
        /\ parts[1] \in CharsOf("456789")
        /\ \A k \in 2..n : Len(parts[k]) \in {1, 2} /\ AllIn(parts[k], Digit)

\* strings.Contains(body, "Cloudflare")
isCloudflare(body) == Contains(body, "Cloudflare")

\* regexp `<[^>]*>` replaced by "" everywhere.  The matches are found left to
\* right: a match starts at the first "<" after the previous match that has
\* a ">" somewhere after it and ends at the first ">" after it.  So the
\* character at j is removed exactly when a ">" follows at k >= j (the first
\* one) and a "<" stands at some i <= j, i < k, with no ">" in i..j-1.
InTag(s, j) ==
    LET close == { k \in j..Len(s) : CharAt(s, k) = ">" }
    IN  /\ close # {}
        /\ \E i \in 1..j :
              /\ CharAt(s, i) = "<"
              /\ \A m \in i..(j - 1) : CharAt(s, m) # ">"

stripTags(html) ==
    ConcatRange([ j \in 1..Len(html) |->
                    IF InTag(html, j) THEN "" ELSE CharAt(html, j) ],
                1, Len(html))

\* strings.TrimSpace(stripTags(body)) == ""
isBlankScreen(body) == AllIn(stripTags(body), SpaceChar)

\* strings.Join(elems, sep)
RECURSIVE Join(_, _)
Join(elems, sep) ==
    IF Len(elems) = 0 THEN ""
    ELSE IF Len(elems) = 1 THEN elems[1]
         ELSE elems[1] \o sep \o Join(Tail(elems), sep)

\* the markers of detectWordPress, in the order they are tested
Markers == << "wp-content", "wp-includes", "wp-json", "wp-emoji", "elementor" >>

\* the markers found in the lower-cased body, from marker k on
RECURSIVE SelectMarkers(_, _)
SelectMarkers(bodyLower, k) ==
    IF k > Len(Markers) THEN << >>
    ELSE (IF Contains(bodyLower, Markers[k]) THEN << Markers[k] >> ELSE << >>)
         \o SelectMarkers(bodyLower, k + 1)

\* <meta\s+name=["']generator["']\s+content=["']NAME\s+([0-9.]+)["']
GeneratorPattern(name) ==
    << Lit("<meta"), Plus(SpaceChar), Lit("name="), One(QuoteChar),
       Lit("generator"), One(QuoteChar), Plus(SpaceChar), Lit("content="),
       One(QuoteChar), Lit(name), Plus(SpaceChar), Plus(VerChar),
       One(QuoteChar) >>

\* mutant: the pattern of any asset is tried before the generator tag
VersionPatternsAssetFirst ==
    << [pat |-> << Lit("?ver="), Plus(VerChar) >>,
        group |-> 2, label |-> "asset version: "],
       [pat |-> GeneratorPattern("WordPress"), group |-> 12,
        label |-> "meta generator: "],
       [pat |-> << Lit("/wp-includes/js/wp-embed.min.js?ver="), Plus(VerChar) >>,
        group |-> 2, label |-> "wp-embed.min.js: "],
       [pat |-> << Lit("wp-emoji-release.min.js?ver="), Plus(VerChar) >>,
        group |-> 2, label |-> "wp-emoji-release.min.js: "],
       [pat |-> GeneratorPattern("Elementor"), group |-> 12,
        label |-> "elementor meta generator: "] >>

\* the version patterns of detectWordPress in the order they are tried:
\* the pattern, its capturing atom and the label put before the evidences
VersionPatterns ==
    << [pat |-> GeneratorPattern("WordPress"), group |-> 12,
        label |-> "meta generator: "],
       [pat |-> << Lit("/wp-includes/js/wp-embed.min.js?ver="), Plus(VerChar) >>,
        group |-> 2, label |-> "wp-embed.min.js: "],
       [pat |-> << Lit("wp-emoji-release.min.js?ver="), Plus(VerChar) >>,
        group |-> 2, label |-> "wp-emoji-release.min.js: "],
       [pat |-> << Lit("?ver="), Plus(VerChar) >>,
        group |-> 2, label |-> "asset version: "],
       [pat |-> GeneratorPattern("Elementor"), group |-> 12,
        label |-> "elementor meta generator: "] >>

\* the candidate of version pattern k in body (NoMatch when it does not match)
VersionCandidate(body, k) ==
    FindSubmatch(body, VersionPatterns[k].pat, VersionPatterns[k].group)

\* the waterfall of detectWordPress from pattern k on
RECURSIVE ExtractVersion(_, _, _)
ExtractVersion(body, evidences, k) ==
    IF k > Len(VersionPatterns)
    THEN [isWordPress |-> TRUE, version |-> "Unknown",
          evidences |-> Join(evidences, ", ")]
    ELSE LET v == VersionCandidate(body, k)
         IN  IF v # NoMatch /\ isValidVersion(v)
             THEN [isWordPress |-> TRUE, version |-> v,
                   evidences |-> VersionPatterns[k].label \o Join(evidences, ", ")]
             ELSE ExtractVersion(body, evidences, k + 1)

\* mutant: the version patterns are applied to the lower-cased body
detectWordPressLowered(body) ==
    LET evidences == SelectMarkers(ToLower(body), 1)
    IN  IF Len(evidences) = 0
        THEN [isWordPress |-> FALSE, version |-> "", evidences |-> ""]
        ELSE ExtractVersion(ToLower(body), evidences, 1)

\* detectWordPress(body): the markers are looked for in the lower-cased
\* body, the versions in the body as received
detectWordPress(body) ==
    LET evidences == SelectMarkers(ToLower(body), 1)
    IN  IF Len(evidences) = 0
        THEN [isWordPress |-> FALSE, version |-> "", evidences |-> ""]
        ELSE ExtractVersion(body, evidences, 1)

(***************************************************************************)
(* src/WIP-with-proxies/main.go and src/php-version/main.php:              *)
(* classification.  lang is "go" or "php".                                 *)
(***************************************************************************)
\* wpIndicators / $wpIndicators
wpIndicators == << "/wp-content/", "/wp-includes/", "wp-login.php", "wp-admin" >>

\* versionPatterns / $versionPatterns, with the capturing atom of each.  The
\* Go source leaves the dots of the third pattern unescaped.
versionPatterns(lang) ==
    << [pat |-> << Lit("<meta name=\"generator\" content=\"WordPress "),
                   Plus(VerChar) >>, group |-> 2],
       [pat |-> << Lit("ver="), Plus(VerChar) >>, group |-> 2],
       IF lang = "go"
       THEN [pat |-> << Lit("wp-includes/js/wp-emoji-release"), AnyChar,
                        Lit("min"), AnyChar, Lit("js?ver="), Plus(VerChar) >>,
             group |-> 6]
       ELSE [pat |-> << Lit("wp-includes/js/wp-emoji-release.min.js?ver="),
                        Plus(VerChar) >>, group |-> 2] >>

\* the loop over the version patterns from pattern k on: the first match wins
RECURSIVE FirstVersion(_, _, _)
FirstVersion(body, lang, k) ==
    IF k > Len(versionPatterns(lang)) THEN ""
    ELSE LET v == FindSubmatch(body, versionPatterns(lang)[k].pat,
                               versionPatterns(lang)[k].group)
         IN  IF v # NoMatch THEN v ELSE FirstVersion(body, lang, k + 1)

\* /wp-content/themes/([^/]+) and /wp-content/plugins/([^/]+)
themePattern  == << Lit("/wp-content/themes/"), PlusNot({"/"}) >>
pluginPattern == << Lit("/wp-content/plugins/"), PlusNot({"/"}) >>

\* seq without the repetitions of its elements, first occurrences kept
RECURSIVE Distinct(_)
Distinct(seq) ==
    IF Len(seq) = 0 THEN << >>
    ELSE LET init == Distinct(SubSeq(seq, 1, Len(seq) - 1))
             last == seq[Len(seq)]
         IN  IF \E k \in 1..Len(init) : init[k] = last THEN init
             ELSE Append(init, last)

\* the orders in which the elements of the sequence seq can be listed
Orders(seq) ==
    { [ k \in 1..Len(seq) |-> seq[f[k]] ] :
        f \in { g \in [1..Len(seq) -> 1..Len(seq)] :
                  \A a, b \in 1..Len(seq) : a # b => g[a] # g[b] } }

\* mutant: the names are listed as often as they were found
PluginListsRepeated(names, lang) ==
    IF lang = "go" THEN Orders(names) ELSE { names }

\* the plugin lists the source can build from the names found: PHP keeps the
\* order of first occurrence (array_unique); Go ranges over a map, whose
\* order of iteration is not defined
PluginLists(names, lang) ==
    IF lang = "go" THEN Orders(Distinct(names)) ELSE { Distinct(names) }

\* detectWordPress(body) of the Go prototype and the detection part of
\* processWordPressData of the PHP one: every WordPressInfo it can return
detectWordPressProxy(body, lang) ==
    IF ~\E k \in 1..Len(wpIndicators) : Contains(body, wpIndicators[k])
    THEN { [isWP |-> FALSE, Version |-> "", Theme |-> "", Plugins |-> << >>] }
    ELSE { [isWP |-> TRUE,
            Version |-> FirstVersion(body, lang, 1),
            Theme |-> FindSubmatch(body, themePattern, 2),
            Plugins |-> pl] :
              pl \in PluginLists(FindAllSubmatch(body, pluginPattern, 2), lang) }

\* mutant: the version is taken from the body whether an indicator was
\* found or not
processResultUngated(result, body, lang) ==
    { IF info.isWP
      THEN [result EXCEPT !.IsWordPress = TRUE, !.WPVersion = info.Version,
                          !.WPTheme = info.Theme, !.WPPlugins = info.Plugins]
      ELSE [result EXCEPT !.IsWordPress = FALSE,
                          !.WPVersion = FirstVersion(body, lang, 1)] :
        info \in detectWordPressProxy(body, lang) }

\* processResult(&result, body) / processWordPressData($result, $body)
processResult(result, body, lang) ==
    { IF info.isWP
      THEN [result EXCEPT !.IsWordPress = TRUE, !.WPVersion = info.Version,
                          !.WPTheme = info.Theme, !.WPPlugins = info.Plugins]
      ELSE [result EXCEPT !.IsWordPress = FALSE] :
        info \in detectWordPressProxy(body, lang) }

(***************************************************************************)
(* Bounds of the model and pools of the environment                        *)
(***************************************************************************)
\* the longest batch of domains given on the command line
MaxDomains == 2
\* the largest value of --max_concurrency
MaxConcurrency == 2

\* the domains a batch is made of: one that passes the structural check and
\* one that does not
DomainPool == { "a.co", "-a.co" }

BodyWordPress ==
    "<meta name=\"generator\" content=\"WordPress 6.2\"><link href=\"/wp-content/x.css?ver=5.1\">"
BodyPlain   == "<html><body>Hello</body></html>"
BodyBlocked == "<h1>Attention Required! | Cloudflare</h1>"

\* error is nil
Nil == "<nil>"

\* the text of the *url.Error client.Get returns
GetError(domain, cause) == "Get \"https://" \o domain \o "\": " \o cause

CauseX509    == "x509: certificate signed by unknown authority"
CauseRefused == "dial tcp: connect: connection refused"
CauseReadAll == "unexpected EOF"
\* the text of the *net.DNSError net.LookupHost returns
LookupError(domain) == "lookup " \o domain \o ": no such host"

\* what the network can do in a run: the causes for which client.Get can
\* fail, the status and body a completed exchange can carry, and the
\* redirects the target can answer with (location "": no Location header)
BatchNet ==
    [ causes  |-> { CauseX509 },
      answers |-> { [statusCode |-> 403, body |-> BodyBlocked] },
      moved   |-> {} ]
SingleNet ==
    [ causes  |-> { CauseX509, CauseRefused },
      answers |-> { [statusCode |-> 200, body |-> BodyWordPress],
                    [statusCode |-> 403, body |-> BodyBlocked],
                    [statusCode |-> 200, body |-> BodyPlain],
                    [statusCode |-> 200, body |-> ""],
                    [statusCode |-> 404, body |-> BodyWordPress],
                    [statusCode |-> 500, body |-> BodyPlain] },
      moved   |-> { [statusCode |-> 301, location |-> "https://www.a.co/"],
                    [statusCode |-> 302, location |-> ""] } ]

(***************************************************************************)
(* State                                                                   *)
(***************************************************************************)
VARIABLES
    \* ---- src/unnamed/part_003, processDomainsConcurrently ----
    domains,         \* the batch: a sequence of domain strings
    maxConcurrency,  \* cap(sem)
    net,             \* what the network can do in this run
    mainPc,          \* where the calling goroutine stands
    di,              \* index of the domain the range loop is at
    wg,              \* counter of the sync.WaitGroup
    sem,             \* number of elements in the channel sem
    resultChan,      \* content of the buffered channel resultChan
    chanClosed,      \* resultChan has been closed
    closerPc,        \* the goroutine of wg.Wait(); close(resultChan)
    results,         \* the slice processDomainsConcurrently returns
    w,               \* goroutine i of the range loop: where it stands (pc),
                     \* the locals of its checkDomain (result, errors, req)
                     \* and the calls it has made to the name service and
                     \* the network, in order (log)
    \* ---- the proxy prototypes, src/WIP-with-proxies and src/php-version ----
    impl,            \* which prototype runs: "go" or "php"
    file,            \* proxies.csv: whether it exists and its lines
    px,              \* the run of the prototype: its number (run), where it
                     \* stands (pc), its locals (domain, result, proxies, i)
                     \* and what it has done so far, over all runs (trace)
    cw,              \* two processes of the prototype that run at the same
                     \* time over the same proxies.csv, each in its proxy
                     \* loop (procs), and what they have done (done, stale)
    \* ---- classification, in the three programs ----
    cl               \* one classification: the program (prog), the body,
                     \* where it stands (pc) and the result

pipelineVars == << domains, maxConcurrency, net, mainPc, di, wg, sem,
                   resultChan, chanClosed, closerPc, results, w >>

proxyVars == << impl, file, px >>

extraVars == << cw, cl >>

vars == << pipelineVars, proxyVars, extraVars >>

Workers == 1..Len(domains)

\* Result{Domain: domain, DomainIsValid: false, DomainHasDNSRecord: false}
NewResult(domain) ==
    [ Domain |-> domain, DomainIsValid |-> FALSE, DomainHasDNSRecord |-> FALSE,
      FinalURL |-> "", IsWordPress |-> FALSE, WordPressVersion |-> "",
      WordPressEvidences |-> "", ResponseTime |-> "", Errors |-> << >> ]

\* the zero values of finalURL, statusCode, body, err before the first request
NoRequest ==
    [ finalURL |-> "", statusCode |-> 0, body |-> "", err |-> Nil,
      hops |-> << >> ]

\* time.Since(startTime).String(): the model keeps one duration
Elapsed == "1ms"

\* fmt.Sprintf("%d", statusCode) for the statuses of the pools
StatusText(statusCode) ==
    CASE statusCode = 0   -> "0"
      [] statusCode = 200 -> "200"
      [] statusCode = 301 -> "301"
      [] statusCode = 302 -> "302"
      [] statusCode = 403 -> "403"
      [] statusCode = 404 -> "404"
      [] statusCode = 500 -> "500"

\* one exchange of the client with url, after the exchanges before: it
\* fails, or the body of the answer cannot be read, or it completes.  hops
\* lists the requests the client has sent, with the status of each answer.
Exchange(url, pool, before) ==
    { [ finalURL |-> "", statusCode |-> 0, body |-> "",
        err |-> GetError(SubSeq(url, 9, Len(url)), c),
        hops |-> Append(before, [url |-> url, statusCode |-> 0]) ] :
        c \in pool.causes }
    \cup
    { [ finalURL |-> "", statusCode |-> a.statusCode, body |-> "",
        err |-> CauseReadAll,
        hops |-> Append(before, [url |-> url, statusCode |-> a.statusCode]) ] :
        a \in pool.answers }
    \cup
    { [ finalURL |-> url, statusCode |-> a.statusCode,
        body |-> a.body, err |-> Nil,
        hops |-> Append(before, [url |-> url, statusCode |-> a.statusCode]) ] :
        a \in pool.answers }

\* the outcomes of makeRequest(domain, ignoreSSL, timeout).  The client is
\* an http.Client with no CheckRedirect, so client.Get follows a redirect
\* that has a Location header: it sends a second request, to the location,
\* and what makeRequest returns is the outcome of that one.  A redirect
\* with no Location header is returned as it is.
makeRequest(domain, pool) ==
    LET url == "https://" \o domain IN
    Exchange(url, pool, << >>)
    \cup
    UNION { IF m.location # ""
            THEN Exchange(m.location, pool,
                          << [url |-> url, statusCode |-> m.statusCode] >>)
            ELSE { [ finalURL |-> url, statusCode |-> m.statusCode,
                     body |-> "", err |-> Nil,
                     hops |-> << [url |-> url, statusCode |-> m.statusCode] >> ] } :
            m \in pool.moved }

(***************************************************************************)
(* src/unnamed/part_003: checkDomain.  Each step of the function is an     *)
(* operator on the locals st of the goroutine; st.pc names the statement   *)
(* it stands at ("send": checkDomain has returned st.result).              *)
(***************************************************************************)
LookupCall(domain, err) ==
    [ call |-> "LookupHost", arg |-> domain, ignoreSSL |-> FALSE, err |-> err ]
GetCall(domain, ignoreSSL, err) ==
    [ call |-> "Get", arg |-> "https://" \o domain, ignoreSSL |-> ignoreSSL,
      err |-> err ]

\* the locals on entry of checkDomain(domain, timeout)
EnterCheckDomain(domain) ==
    [ pc |-> "validate", result |-> NewResult(domain), errors |-> << >>,
      req |-> NoRequest, log |-> << >> ]

\* `return result` after result.Errors = errors
ReturnWith(st, errors) ==
    [st EXCEPT !.errors = errors, !.result.Errors = errors, !.pc = "send"]

\* mutant: the early return of the structural check is missing
AfterValidateNoReturn(st) ==
    IF ~isValidDomain(st.result.Domain)
    THEN [st EXCEPT !.errors = Append(@, "invalid domain structure"),
                    !.pc = "lookup"]
    ELSE [st EXCEPT !.result.DomainIsValid = TRUE, !.pc = "lookup"]

\* if !isValidDomain(domain) { ...; return result }; result.DomainIsValid = true
AfterValidate(st) ==
    IF ~isValidDomain(st.result.Domain)
    THEN ReturnWith(st, Append(st.errors, "invalid domain structure"))
    ELSE [st EXCEPT !.result.DomainIsValid = TRUE, !.pc = "lookup"]

\* if !isDomainRegistered(domain) { ...; return result }
\* result.DomainHasDNSRecord = true; registered is what net.LookupHost found
AfterLookup(st, registered) ==
    LET err == IF registered THEN Nil ELSE LookupError(st.result.Domain)
        s   == [st EXCEPT !.log = Append(@, LookupCall(st.result.Domain, err))]
    IN  IF ~registered
        THEN ReturnWith(s, Append(s.errors, "domain not registered"))
        ELSE [s EXCEPT !.result.DomainHasDNSRecord = TRUE, !.pc = "request"]

\* mutant: every failed request is retried without verification
IsSSLErrorAnyError(err) == err # Nil

\* err != nil && strings.Contains(err.Error(), "x509")
IsSSLError(err) == err # Nil /\ Contains(err, "x509")

\* if err != nil { errors = append(errors, err.Error()) }
WithError(errors, err) == IF err # Nil THEN Append(errors, err) ELSE errors

\* finalURL, statusCode, body, err := makeRequest(domain, false, timeout),
\* out being what the call returned
AfterRequest(st, out) ==
    [st EXCEPT !.log = Append(@, GetCall(st.result.Domain, FALSE, out.err)),
               !.req = out,
               !.result.ResponseTime = Elapsed,
               !.errors = WithError(@, out.err),
               !.pc = IF IsSSLError(out.err) THEN "retry" ELSE "classify"]

\* the body of `if err != nil && strings.Contains(err.Error(), "x509")`
AfterRetry(st, out) ==
    [st EXCEPT !.log = Append(@, GetCall(st.result.Domain, TRUE, out.err)),
               !.req = out,
               !.result.ResponseTime = Elapsed,
               !.errors = WithError(Append(@, "SSL error"), out.err),
               !.pc = "classify"]

\* mutant: the status is put among the errors whatever it is
FinalErrorsAnyStatus(errors, statusCode, body) ==
    LET e1 == Append(errors, "status code " \o StatusText(statusCode))
    IN  IF isBlankScreen(body) THEN Append(e1, "blank screen") ELSE e1

\* errors after the status check and the blank-screen check
FinalErrors(errors, statusCode, body) ==
    LET e1 == IF statusCode # 200
              THEN Append(errors, "status code " \o StatusText(statusCode))
              ELSE errors
        e2 == IF statusCode # 200 /\ statusCode = 403 /\ isCloudflare(body)
              THEN Append(e1, "blocked by Cloudflare")
              ELSE e1
    IN  IF isBlankScreen(body) THEN Append(e2, "blank screen") ELSE e2

\* mutant: a status other than 200 keeps the body from being classified
AfterClassifyOnlyOn200(st) ==
    LET wp == detectWordPress(st.req.body)
        r1 == IF wp.isWordPress /\ st.req.statusCode = 200
              THEN [st.result EXCEPT !.IsWordPress = TRUE,
                                     !.WordPressVersion = wp.version,
                                     !.WordPressEvidences = wp.evidences]
              ELSE st.result
        s  == [st EXCEPT !.result = [r1 EXCEPT !.FinalURL = st.req.finalURL]]
    IN  ReturnWith(s, FinalErrors(st.errors, st.req.statusCode, st.req.body))

\* from `if statusCode != 200` to `return result`
AfterClassify(st) ==
    LET wp == detectWordPress(st.req.body)
        r1 == IF wp.isWordPress
              THEN [st.result EXCEPT !.IsWordPress = TRUE,
                                     !.WordPressVersion = wp.version,
                                     !.WordPressEvidences = wp.evidences]
              ELSE st.result
        s  == [st EXCEPT !.result = [r1 EXCEPT !.FinalURL = st.req.finalURL]]
    IN  ReturnWith(s, FinalErrors(st.errors, st.req.statusCode, st.req.body))

\* the steps a goroutine standing at st can take next
StepsFrom(st, pool) ==
    CASE st.pc = "validate" -> { AfterValidate(st) }
      [] st.pc = "lookup"   -> { AfterLookup(st, r) : r \in BOOLEAN }
      [] st.pc = "request"  ->
            { AfterRequest(st, out) : out \in makeRequest(st.result.Domain, pool) }
      [] st.pc = "retry"    ->
            { AfterRetry(st, out) : out \in makeRequest(st.result.Domain, pool) }
      [] st.pc = "classify" -> { AfterClassify(st) }
      [] OTHER              -> { st }

\* the locals with which the statements of checkDomain can leave S after n
\* more of them (a call of checkDomain runs at most five)
RECURSIVE RunSteps(_, _, _)
RunSteps(S, pool, n) ==
    IF n = 0 THEN S
    ELSE RunSteps(UNION { StepsFrom(st, pool) : st \in S }, pool, n - 1)

\* checkDomain(domain, timeout): every way the call can return
checkDomain(domain, pool) == RunSteps({ EnterCheckDomain(domain) }, pool, 5)

(***************************************************************************)
(* src/unnamed/part_003: the goroutine of processDomainsConcurrently       *)
(***************************************************************************)
PipelineUnchanged ==
    UNCHANGED << domains, maxConcurrency, net, mainPc, di, wg, sem,
                 resultChan, chanClosed, closerPc, results,
                    proxyVars, extraVars >>

\* result := checkDomain(domain, timeout), the whole call
CheckDomain(i) ==
    /\ w[i].pc = "validate"
    /\ \E st \in checkDomain(domains[i], net) : w' = [w EXCEPT ![i] = st]
    /\ PipelineUnchanged

\* the same call, statement by statement
Validate(i) ==
    /\ w[i].pc = "validate"
    /\ w' = [w EXCEPT ![i] = AfterValidate(@)]
    /\ PipelineUnchanged

Lookup(i) ==
    /\ w[i].pc = "lookup"
    /\ \E registered \in BOOLEAN : w' = [w EXCEPT ![i] = AfterLookup(@, registered)]
    /\ PipelineUnchanged

Request(i) ==
    /\ w[i].pc = "request"
    /\ \E out \in makeRequest(domains[i], net) :
          w' = [w EXCEPT ![i] = AfterRequest(@, out)]
    /\ PipelineUnchanged

Retry(i) ==
    /\ w[i].pc = "retry"
    /\ \E out \in makeRequest(domains[i], net) :
          w' = [w EXCEPT ![i] = AfterRetry(@, out)]
    /\ PipelineUnchanged

Classify(i) ==
    /\ w[i].pc = "classify"
    /\ w' = [w EXCEPT ![i] = AfterClassify(@)]
    /\ PipelineUnchanged

\* mutant: resultChan is made without a buffer, so a send waits for the
\* receive of the collecting loop
SendUnbuffered(i) ==
    /\ w[i].pc = "send"
    /\ ~chanClosed
    /\ mainPc = "collect"
    /\ resultChan = << >>
    /\ resultChan' = Append(resultChan, w[i].result)
    /\ w' = [w EXCEPT ![i].pc = "release"]
    /\ UNCHANGED << domains, maxConcurrency, net, mainPc, di, wg, sem,
                    chanClosed, closerPc, results,
                    proxyVars, extraVars >>

\* resultChan <- result (the channel holds len(domains) elements)
Send(i) ==
    /\ w[i].pc = "send"
    /\ ~chanClosed
    /\ Len(resultChan) < Len(domains)
    /\ resultChan' = Append(resultChan, w[i].result)
    /\ w' = [w EXCEPT ![i].pc = "release"]
    /\ UNCHANGED << domains, maxConcurrency, net, mainPc, di, wg, sem,
                    chanClosed, closerPc, results,
                    proxyVars, extraVars >>

\* mutant: the slot is given back only on the path without errors, as a
\* release written after the call instead of deferred would
ReleaseOnSuccessOnly(i) ==
    /\ w[i].pc = "release"
    /\ sem > 0
    /\ sem' = IF w[i].result.Errors = << >> THEN sem - 1 ELSE sem
    /\ w' = [w EXCEPT ![i].pc = "done"]
    /\ UNCHANGED << domains, maxConcurrency, net, mainPc, di, wg,
                    resultChan, chanClosed, closerPc, results,
                    proxyVars, extraVars >>

\* defer func() { <-sem }(), the deferred call that runs first
Release(i) ==
    /\ w[i].pc = "release"
    /\ sem > 0
    /\ sem' = sem - 1
    /\ w' = [w EXCEPT ![i].pc = "done"]
    /\ UNCHANGED << domains, maxConcurrency, net, mainPc, di, wg,
                    resultChan, chanClosed, closerPc, results,
                    proxyVars, extraVars >>

\* defer wg.Done(), the deferred call that runs last
WgDone(i) ==
    /\ w[i].pc = "done"
    /\ wg' = wg - 1
    /\ w' = [w EXCEPT ![i].pc = "exit"]
    /\ UNCHANGED << domains, maxConcurrency, net, mainPc, di, sem,
                    resultChan, chanClosed, closerPc, results,
                    proxyVars, extraVars >>

(***************************************************************************)
(* src/unnamed/part_003: processDomainsConcurrently, the calling goroutine *)
(***************************************************************************)
\* the range loop takes the next domain: wg.Add(1)
RangeNext ==
    /\ mainPc = "range"
    /\ di <= Len(domains)
    /\ wg' = wg + 1
    /\ mainPc' = "acquire"
    /\ UNCHANGED << domains, maxConcurrency, net, di, sem, resultChan,
                    chanClosed, closerPc, results, w,
                    proxyVars, extraVars >>

\* mutant: the send on sem never blocks
AcquireUnbounded ==
    /\ mainPc = "acquire"
    /\ sem' = sem + 1
    /\ mainPc' = "go"
    /\ UNCHANGED << domains, maxConcurrency, net, di, wg, resultChan,
                    chanClosed, closerPc, results, w,
                    proxyVars, extraVars >>

\* sem <- struct{}{}: blocks while the channel is full
Acquire ==
    /\ mainPc = "acquire"
    /\ sem < maxConcurrency
    /\ sem' = sem + 1
    /\ mainPc' = "go"
    /\ UNCHANGED << domains, maxConcurrency, net, di, wg, resultChan,
                    chanClosed, closerPc, results, w,
                    proxyVars, extraVars >>

\* go func(domain string) {...}(domain): the goroutine exists and enters
\* checkDomain
Go ==
    /\ mainPc = "go"
    /\ w' = [w EXCEPT ![di] = EnterCheckDomain(domains[di])]
    /\ di' = di + 1
    /\ mainPc' = "range"
    /\ UNCHANGED << domains, maxConcurrency, net, wg, sem, resultChan,
                    chanClosed, closerPc, results,
                    proxyVars, extraVars >>

\* the loop is over: go func() { wg.Wait(); close(resultChan) }()
RangeEnd ==
    /\ mainPc = "range"
    /\ di > Len(domains)
    /\ closerPc' = "wait"
    /\ mainPc' = "collect"
    /\ UNCHANGED << domains, maxConcurrency, net, di, wg, sem, resultChan,
                    chanClosed, results, w,
                    proxyVars, extraVars >>

\* wg.Wait() returns; close(resultChan)
CloseChan ==
    /\ closerPc = "wait"
    /\ wg = 0
    /\ chanClosed' = TRUE
    /\ closerPc' = "done"
    /\ UNCHANGED << domains, maxConcurrency, net, mainPc, di, wg, sem,
                    resultChan, results, w,
                    proxyVars, extraVars >>

\* for result := range resultChan { results = append(results, result) }
Collect ==
    /\ mainPc = "collect"
    /\ resultChan # << >>
    /\ results' = Append(results, Head(resultChan))
    /\ resultChan' = Tail(resultChan)
    /\ UNCHANGED << domains, maxConcurrency, net, mainPc, di, wg, sem,
                    chanClosed, closerPc, w,
                    proxyVars, extraVars >>

\* mutant: the collecting loop stops at the first moment the channel is
\* empty, without waiting for it to be closed
ReturnWhenEmpty ==
    /\ mainPc = "collect"
    /\ resultChan = << >>
    /\ mainPc' = "returned"
    /\ UNCHANGED << domains, maxConcurrency, net, di, wg, sem, resultChan,
                    chanClosed, closerPc, results, w,
                    proxyVars, extraVars >>

\* the range over resultChan ends: the channel is closed and drained
Return ==
    /\ mainPc = "collect"
    /\ resultChan = << >>
    /\ chanClosed
    /\ mainPc' = "returned"
    /\ UNCHANGED << domains, maxConcurrency, net, di, wg, sem, resultChan,
                    chanClosed, closerPc, results, w,
                    proxyVars, extraVars >>

(***************************************************************************)
(* src/WIP-with-proxies/main.go and src/php-version/main.php: proxies.csv  *)
(* The file is [exists, lines], lines being its lines without their line   *)
(* ends.  A proxy of the list in memory is a record with the fields of     *)
(* type Proxy; position k of a TLA+ sequence is index k - 1 of the source. *)
(***************************************************************************)
\* the number of data rows of proxies.csv at the start
MaxRows == 2
\* the number of runs of the prototype over the same proxies.csv
MaxRuns == 2

\* the fields of one line of a file without quoted fields
CsvFields(line) == Split(line, ",")

IsRecordLine(line) == line # ""

\* encoding/csv, Reader: the records of the lines; a blank line is no record
CsvRecords(lines) ==
    LET kept == SelectSeq(lines, IsRecordLine)
    IN  [ k \in 1..Len(kept) |-> CsvFields(kept[k]) ]

\* encoding/csv, Reader with FieldsPerRecord = 0: every record must have as
\* many fields as the first one
ErrFieldCount == "record on line 2: wrong number of fields"
FieldCountError(records) ==
    \E k \in 2..Len(records) : Len(records[k]) # Len(records[1])

\* strconv.ParseBool, the error dropped: active, _ := strconv.ParseBool(...)
ParseBool(str) == str \in { "1", "t", "T", "TRUE", "true", "True" }

\* the value of the active field of a record
ActiveFlag(field, lang) ==
    IF lang = "go" THEN ParseBool(field) ELSE ToLower(field) = "true"

HasSixFields(record) == Len(record) >= 6

\* the loop body of loadProxies: records of fewer than six fields are passed
\* over, the others become proxies
ProxiesOf(records, lang) ==
    LET kept == SelectSeq(records, HasSixFields)
    IN  [ k \in 1..Len(kept) |->
            [ Host |-> kept[k][1], Port |-> kept[k][2],
              Username |-> kept[k][3], Password |-> kept[k][4],
              Type |-> kept[k][5], Active |-> ActiveFlag(kept[k][6], lang) ] ]

ErrNotExist == "open proxies.csv: no such file or directory"

\* loadProxies(filename) of the Go prototype
loadProxiesGo(f) ==
    IF ~f.exists THEN [ proxies |-> << >>, err |-> ErrNotExist ]
    ELSE LET records == CsvRecords(f.lines)
         IN  IF Len(records) = 0 THEN [ proxies |-> << >>, err |-> "EOF" ]
             ELSE IF FieldCountError(records)
                  THEN [ proxies |-> << >>, err |-> ErrFieldCount ]
                  ELSE [ proxies |-> ProxiesOf(Tail(records), "go"),
                         err |-> Nil ]

\* loadProxies($filename) of the PHP prototype: fgetcsv gives one field for
\* a blank line, and no line is an error
loadProxiesPhp(f) ==
    IF ~f.exists \/ Len(f.lines) = 0 THEN [ proxies |-> << >>, err |-> Nil ]
    ELSE [ proxies |->
             ProxiesOf([ k \in 1..(Len(f.lines) - 1) |-> CsvFields(f.lines[k + 1]) ],
                       "php"),
           err |-> Nil ]

loadProxies(f, lang) ==
    IF lang = "go" THEN loadProxiesGo(f) ELSE loadProxiesPhp(f)

\* records[index+1][5] = "false" / $data[5] = 'false'
WithFalse(record) == [record EXCEPT ![6] = "false"]

\* markProxyAsInactive(proxies, index, filename) of the Go prototype, for
\* index = k - 1: the list in memory, which the caller shares, and the file
\* afterwards.  A record of fewer than six fields at index+1 would stop the
\* program before the file is written.
markProxyAsInactiveGo(proxies, k, f) ==
    LET marked  == [proxies EXCEPT ![k].Active = FALSE]
        records == CsvRecords(f.lines)
        updated == IF Len(records) > k
                   THEN [records EXCEPT ![k + 1] = WithFalse(@)]
                   ELSE records
    IN  IF ~f.exists \/ FieldCountError(records)
           \/ (Len(records) > k /\ ~HasSixFields(records[k + 1]))
        THEN [ proxies |-> marked, file |-> f ]
        ELSE [ proxies |-> marked,
               file |-> [f EXCEPT !.lines =
                           [ j \in 1..Len(updated) |-> Join(updated[j], ",") ]] ]

\* markProxyAsInactive($proxies, $index) of the PHP prototype, for
\* $index = k - 1: $proxies is passed by value, so the list of the caller
\* stays as it was; line $index + 1 of the file is rewritten when it has
\* six fields
markProxyAsInactivePhp(proxies, k, f) ==
    IF ~f.exists THEN [ proxies |-> proxies, file |-> f ]
    ELSE IF k + 1 <= Len(f.lines) /\ HasSixFields(CsvFields(f.lines[k + 1]))
         THEN [ proxies |-> proxies,
                file |-> [f EXCEPT !.lines[k + 1] =
                            Join(WithFalse(CsvFields(@)), ",")] ]
         ELSE [ proxies |-> proxies, file |-> f ]

markProxyAsInactive(proxies, k, f, lang) ==
    IF lang = "go" THEN markProxyAsInactiveGo(proxies, k, f)
    ELSE markProxyAsInactivePhp(proxies, k, f)

(***************************************************************************)
(* src/WIP-with-proxies/main.go: main, and src/php-version/main.php:       *)
(* checkDomain.  The zero values of Go stand for the nulls of PHP as well. *)
(***************************************************************************)
\* the domain given on the command line, with its scheme
WithScheme(arg, lang) ==
    IF lang = "go"
    THEN (IF HasPrefix(arg, "http://") \/ HasPrefix(arg, "https://")
          THEN arg ELSE "https://" \o arg)
    ELSE (IF HasPrefix(ToLower(arg), "http://") \/ HasPrefix(ToLower(arg), "https://")
          THEN arg ELSE "https://" \o arg)

\* DomainResult{Domain: domain} / $result = [...]
NewDomainResult(domain) ==
    [ Domain |-> domain, StatusCode |-> 0, IsWordPress |-> FALSE,
      WPVersion |-> "", WPTheme |-> "", WPPlugins |-> << >>, Headers |-> {},
      Error |-> "", ProxyUsed |-> "", RedirectLocation |-> "" ]

\* textproto.CanonicalMIMEHeaderKey: the first letter and every letter after
\* a hyphen in upper case, the others in lower case
CanonicalKey(name) ==
    ConcatRange([ i \in 1..Len(name) |->
                    IF i = 1 \/ CharAt(name, i - 1) = "-"
                    THEN UpperOf(CharAt(name, i)) ELSE LowerOf(CharAt(name, i)) ],
                1, Len(name))

\* the headers of a response as the prototype keeps them: pairs of key and
\* value, the key as net/http or strtolower writes it
HeadersOf(sent, lang) ==
    { << IF lang = "go" THEN CanonicalKey(h[1]) ELSE ToLower(h[1]), h[2] >> :
        h \in sent }

\* headers["Location"] / $headers['location']
LocationKey(lang) == IF lang = "go" THEN "Location" ELSE "location"

\* the redirect check of main / checkDomain
WithRedirect(result, statusCode, headers, lang) ==
    IF (statusCode = 301 \/ statusCode = 302)
       /\ \E h \in headers : h[1] = LocationKey(lang)
    THEN [result EXCEPT !.RedirectLocation =
            (CHOOSE h \in headers : h[1] = LocationKey(lang))[2]]
    ELSE result

\* the text of the error of client.Do / of curl_error
FetchError(url, cause, lang) ==
    IF lang = "go" THEN "Get \"" \o url \o "\": " \o cause ELSE cause

\* checkDomain(domain, proxy) / fetchUrl($url, $proxy): the request fails,
\* or (Go) the body of an answer of pool.cut cannot be read to its end, or
\* the exchange completes
fetchUrl(url, pool, lang) ==
    { [ err |-> FetchError(url, c, lang), statusCode |-> 0, body |-> "",
        headers |-> {} ] : c \in pool.causes }
    \cup
    ( IF lang = "go"
      THEN { [ err |-> CauseReadAll, statusCode |-> a.statusCode, body |-> "",
               headers |-> HeadersOf(a.headers, lang) ] : a \in pool.cut }
      ELSE {} )
    \cup
    { [ err |-> Nil, statusCode |-> a.statusCode, body |-> a.body,
        headers |-> HeadersOf(a.headers, lang) ] : a \in pool.answers }

\* result.Error = err.Error() / "Connection error: " . $body
WithConnectionError(result, err, lang) ==
    [result EXCEPT !.Error = IF lang = "go" THEN err
                             ELSE "Connection error: " \o err]

\* mutant: the headers of the answer are not taken into the result
AdoptStatusOnly(result, out, lang) ==
    WithRedirect([result EXCEPT !.StatusCode = out.statusCode],
                 out.statusCode, out.headers, lang)

\* the answer of a fetch taken into the result: status, headers, redirect
Adopt(result, out, lang) ==
    WithRedirect([result EXCEPT !.StatusCode = out.statusCode,
                                !.Headers = out.headers],
                 out.statusCode, out.headers, lang)

\* mutant: every status but 200 counts as blocked
IsBlockedNot200(statusCode) == statusCode # 200

\* the negation of "if statusCode != 403": the direct answer is the block
IsBlocked(statusCode) == statusCode = 403

\* mutant: the flag of the proxy is not looked at
UsableAlways(proxy) == TRUE

\* the negation of "if !proxy.Active" / "$proxy['active'] !== true"
Usable(proxy) == proxy.Active

\* mutant: the status is forced and no error is recorded
AllProxiesFailedSilently(result) == [result EXCEPT !.StatusCode = 403]

\* the statements after the loop
AllProxiesFailed(result) ==
    [result EXCEPT !.StatusCode = 403,
                   !.Error = "All proxies failed or returned 403"]

\* fmt.Sprintf("%s:%s", proxy.Host, proxy.Port)
ProxyName(proxy) == proxy.Host \o ":" \o proxy.Port

\* one entry of px.trace
Event(op, via, active, out, loaded) ==
    [ run |-> px.run, op |-> op, via |-> via, active |-> active,
      ok |-> out.err = Nil, status |-> out.statusCode, body |-> out.body,
      headers |-> out.headers, loaded |-> loaded ]

NoOutcome == [ err |-> Nil, statusCode |-> 0, body |-> "", headers |-> {} ]

\* the bodies and headers of the pools
BodyWordPressSite ==
    "<link href=\"/wp-content/themes/astra/s.css?ver=6.4\"><script src=\"/wp-content/plugins/seo/a.js\"></script>"
BodyBlockedSite == "<h1>403 Forbidden</h1><a href=\"/wp-login.php\">log in</a>"

AnswerWordPress ==
    [ statusCode |-> 200, body |-> BodyWordPressSite,
      headers |-> { << "server", "nginx" >> } ]
AnswerRedirect ==
    [ statusCode |-> 301, body |-> "",
      headers |-> { << "location", "https://b.co/" >> } ]
AnswerTemporary ==
    [ statusCode |-> 307, body |-> "",
      headers |-> { << "location", "https://b.co/" >> } ]
AnswerBlocked ==
    [ statusCode |-> 403, body |-> BodyBlockedSite, headers |-> {} ]

\* what the target answers when asked directly and when asked via a proxy
DirectNet ==
    [ causes  |-> { CauseRefused },
      answers |-> { AnswerWordPress, AnswerRedirect, AnswerTemporary,
                    AnswerBlocked },
      cut     |-> { AnswerBlocked } ]
ProxyNet ==
    [ causes  |-> { CauseRefused },
      answers |-> { AnswerWordPress, AnswerBlocked },
      cut     |-> { AnswerWordPress } ]

\* the prototype is started with the argument arg
StartRun(arg, n, trace) ==
    [ run |-> n, pc |-> "direct", arg |-> arg, domain |-> WithScheme(arg, impl),
      result |-> NewDomainResult(WithScheme(arg, impl)),
      proxies |-> << >>, i |-> 1, trace |-> trace ]

\* mutant: a direct fetch that fails is treated like a refusal of status
\* 403, and the proxies are tried
DirectFetchFailover ==
    /\ px.pc = "direct"
    /\ \E out \in fetchUrl(px.domain, DirectNet, impl) :
         LET ev == Event("fetch", 0, TRUE, out, << >>) IN
         IF out.err # Nil
         THEN px' = [px EXCEPT !.pc = "load",
                               !.result = WithConnectionError(@, out.err, impl),
                               !.trace = Append(@, ev)]
         ELSE IF ~IsBlocked(out.statusCode)
              THEN \E r \in processResult(Adopt(px.result, out, impl), out.body, impl) :
                     px' = [px EXCEPT !.pc = "done", !.result = r,
                                      !.trace = Append(Append(@, ev),
                                          Event("classify", 0, TRUE, out, << >>))]
              ELSE px' = [px EXCEPT !.pc = "load",
                                    !.result = Adopt(@, out, impl),
                                    !.trace = Append(@, ev)]
    /\ UNCHANGED << pipelineVars, impl, file, extraVars >>

\* the direct fetch and what main does with its answer before the proxies
DirectFetch ==
    /\ px.pc = "direct"
    /\ \E out \in fetchUrl(px.domain, DirectNet, impl) :
         LET ev == Event("fetch", 0, TRUE, out, << >>) IN
         IF out.err # Nil
         THEN px' = [px EXCEPT !.pc = "done",
                               !.result = WithConnectionError(@, out.err, impl),
                               !.trace = Append(@, ev)]
         ELSE IF ~IsBlocked(out.statusCode)
              THEN \E r \in processResult(Adopt(px.result, out, impl), out.body, impl) :
                     px' = [px EXCEPT !.pc = "done", !.result = r,
                                      !.trace = Append(Append(@, ev),
                                          Event("classify", 0, TRUE, out, << >>))]
              ELSE px' = [px EXCEPT !.pc = "load",
                                    !.result = Adopt(@, out, impl),
                                    !.trace = Append(@, ev)]
    /\ UNCHANGED << pipelineVars, impl, file, extraVars >>

\* mutant: a list that cannot be loaded ends the run with no error text
LoadProxiesSilent ==
    /\ px.pc = "load"
    /\ LET l  == loadProxies(file, impl)
           ev == Event("load", 0, TRUE, NoOutcome, l.proxies)
       IN  IF (impl = "go" /\ l.err # Nil) \/ (impl = "php" /\ Len(l.proxies) = 0)
           THEN px' = [px EXCEPT !.pc = "done", !.trace = Append(@, ev)]
           ELSE px' = [px EXCEPT !.pc = "loop", !.proxies = l.proxies,
                                 !.i = 1, !.trace = Append(@, ev)]
    /\ UNCHANGED << pipelineVars, impl, file, extraVars >>

\* proxies, err := loadProxies("proxies.csv") and the test after it
LoadProxies ==
    /\ px.pc = "load"
    /\ LET l  == loadProxies(file, impl)
           ev == Event("load", 0, TRUE, NoOutcome, l.proxies)
       IN  IF impl = "go" /\ l.err # Nil
           THEN px' = [px EXCEPT !.pc = "done",
                                 !.result.Error = "Failed to load proxies: " \o l.err,
                                 !.trace = Append(@, ev)]
           ELSE IF impl = "php" /\ Len(l.proxies) = 0
                THEN px' = [px EXCEPT !.pc = "done",
                                      !.result.Error = "No proxies available",
                                      !.trace = Append(@, ev)]
                ELSE px' = [px EXCEPT !.pc = "loop", !.proxies = l.proxies,
                                      !.i = 1, !.trace = Append(@, ev)]
    /\ UNCHANGED << pipelineVars, impl, file, extraVars >>

\* the loop passes over a proxy that is not active
SkipInactive ==
    /\ px.pc = "loop"
    /\ px.i <= Len(px.proxies)
    /\ ~Usable(px.proxies[px.i])
    /\ px' = [px EXCEPT !.i = @ + 1]
    /\ UNCHANGED << pipelineVars, impl, file, extraVars >>

\* mutant: an answer of status 403 through a proxy is treated like a
\* failed fetch, and the proxy is deactivated
ProxyFetchMarksBlocked ==
    /\ px.pc = "loop"
    /\ px.i <= Len(px.proxies)
    /\ Usable(px.proxies[px.i])
    /\ \E out \in fetchUrl(px.domain, ProxyNet, impl) :
         LET ev == Event("fetch", px.i, px.proxies[px.i].Active, out, << >>) IN
         IF out.err # Nil \/ IsBlocked(out.statusCode)
         THEN px' = [px EXCEPT !.pc = "mark", !.trace = Append(@, ev)]
         ELSE \E r \in processResult(
                         [Adopt(px.result, out, impl) EXCEPT
                            !.ProxyUsed = ProxyName(px.proxies[px.i])],
                         out.body, impl) :
                px' = [px EXCEPT !.pc = "done", !.result = r,
                                 !.trace = Append(Append(@, ev),
                                     Event("classify", px.i, TRUE, out, << >>))]
    /\ UNCHANGED << pipelineVars, impl, file, extraVars >>

\* the fetch through proxy i: an error leads to markProxyAsInactive, an
\* answer is taken into the result, classified, and ends the run
ProxyFetch ==
    /\ px.pc = "loop"
    /\ px.i <= Len(px.proxies)
    /\ Usable(px.proxies[px.i])
    /\ \E out \in fetchUrl(px.domain, ProxyNet, impl) :
         LET ev == Event("fetch", px.i, px.proxies[px.i].Active, out, << >>) IN
         IF out.err # Nil
         THEN px' = [px EXCEPT !.pc = "mark", !.trace = Append(@, ev)]
         ELSE \E r \in processResult(
                         [Adopt(px.result, out, impl) EXCEPT
                            !.ProxyUsed = ProxyName(px.proxies[px.i])],
                         out.body, impl) :
                px' = [px EXCEPT !.pc = "done", !.result = r,
                                 !.trace = Append(Append(@, ev),
                                     Event("classify", px.i, TRUE, out, << >>))]
    /\ UNCHANGED << pipelineVars, impl, file, extraVars >>

\* markProxyAsInactive(proxies, i, "proxies.csv"); continue
Mark ==
    /\ px.pc = "mark"
    /\ LET m == markProxyAsInactive(px.proxies, px.i, file, impl) IN
         /\ file' = m.file
         /\ px' = [px EXCEPT !.pc = "loop", !.proxies = m.proxies, !.i = @ + 1,
                             !.trace = Append(@, Event("mark", px.i, TRUE,
                                                       NoOutcome, << >>))]
    /\ UNCHANGED << pipelineVars, impl, extraVars >>

\* the loop is over and no proxy has answered
LoopEnd ==
    /\ px.pc = "loop"
    /\ px.i > Len(px.proxies)
    /\ px' = [px EXCEPT !.pc = "done", !.result = AllProxiesFailed(@)]
    /\ UNCHANGED << pipelineVars, impl, file, extraVars >>

\* the arguments the prototype is started with
ArgPool == { "a.co" }

\* the result is printed; the prototype is started again later, on the
\* same domain
NextRun ==
    /\ px.pc = "done"
    /\ px.run < MaxRuns
    /\ px' = StartRun(px.arg, px.run + 1, px.trace)
    /\ UNCHANGED << pipelineVars, impl, file, extraVars >>

\* the prototype is not running
PxOff ==
    [ run |-> 0, pc |-> "off", arg |-> "", domain |-> "",
      result |-> NewDomainResult(""),
      proxies |-> << >>, i |-> 1, trace |-> << >> ]

\* no two processes share proxies.csv, nothing is being classified
CwOff == [ procs |-> << >>, done |-> {}, stale |-> {},
           start |-> [ exists |-> FALSE, lines |-> << >> ] ]
ClOff == [ prog |-> "", pc |-> "off", body |-> "", result |-> << >> ]
ExtraIdle == cw = CwOff /\ cl = ClOff

\* the prototypes are not running
ProxyIdle ==
    /\ impl = "go"
    /\ file = [ exists |-> FALSE, lines |-> << >> ]
    /\ px = PxOff
    /\ ExtraIdle

\* sequences over S of length at most n
SeqUpTo(S, n) == UNION { [1..k -> S] : k \in 0..n }

\* a goroutine the go statement has not created yet
NotStarted(domain) == [EnterCheckDomain(domain) EXCEPT !.pc = "none"]

\* the state on entry of processDomainsConcurrently(batch, cap, timeout)
PipelineStart(batch, cap, pool) ==
    /\ domains = batch
    /\ maxConcurrency = cap
    /\ net = pool
    /\ mainPc = "range"
    /\ di = 1
    /\ wg = 0
    /\ sem = 0
    /\ resultChan = << >>
    /\ chanClosed = FALSE
    /\ closerPc = "none"
    /\ results = << >>
    /\ w = [i \in 1..Len(batch) |-> NotStarted(batch[i])]

MainStep ==
    \/ RangeNext \/ Acquire \/ Go \/ RangeEnd \/ CloseChan \/ Collect \/ Return

\* the batch: every batch of at most MaxDomains domains under every cap of at
\* most MaxConcurrency, each checkDomain call one step
Init ==
    /\ \E batch \in SeqUpTo(DomainPool, MaxDomains), cap \in 1..MaxConcurrency :
          PipelineStart(batch, cap, BatchNet)
    /\ ProxyIdle

Next ==
    \/ MainStep
    \/ \E i \in Workers : CheckDomain(i)
    \/ \E i \in Workers : Send(i)
    \/ \E i \in Workers : Release(i)
    \/ \E i \in Workers : WgDone(i)

Spec == Init /\ [][Next]_vars

\* the steps of processDomainsConcurrently and of its goroutines around
\* the call of checkDomain
Scheduled ==
    \/ MainStep
    \/ \E i \in Workers : Send(i)
    \/ \E i \in Workers : Release(i)
    \/ \E i \in Workers : WgDone(i)

\* every call of checkDomain returns: no goroutine stays in it for ever
CheckDomainReturns ==
    \A i \in 1..MaxDomains : []<>(i \in Workers => w[i].pc # "validate")

\* the Go scheduler runs a goroutine that is not blocked: as long as a step
\* of the calling goroutine, of the closing one or of a goroutine after its
\* call of checkDomain is possible, one is taken
SpecLive == Spec /\ WF_vars(Scheduled) /\ CheckDomainReturns

\* one domain, checkDomain statement by statement, the network answering
\* from the larger pool
InitSteps ==
    /\ \E d \in DomainPool : PipelineStart(<< d >>, 1, SingleNet)
    /\ ProxyIdle

NextSteps ==
    \/ MainStep
    \/ \E i \in Workers : Validate(i)
    \/ \E i \in Workers : Lookup(i)
    \/ \E i \in Workers : Request(i)
    \/ \E i \in Workers : Retry(i)
    \/ \E i \in Workers : Classify(i)
    \/ \E i \in Workers : Send(i)
    \/ \E i \in Workers : Release(i)
    \/ \E i \in Workers : WgDone(i)

SpecSteps == InitSteps /\ [][NextSteps]_vars

(***************************************************************************)
(* The proxy prototypes: runs of either prototype over every proxies.csv   *)
(* of a header and at most MaxRows rows                                    *)
(***************************************************************************)
HeaderPool == { "host,port,username,password,type,active", "host,port" }

\* rows: active, inactive, too short, and active for strconv.ParseBool
\* only (a blank line stands in the files of SkippedLinePool)
RowPool ==
    { "10.0.0.1,8080,,,http,true",
      "10.0.0.3,3128,,,http,false",
      "10.0.0.4,80",
      "10.0.0.5,1080,user,secret,socks5,1" }

\* files in which a line that loadProxies passes over stands before two
\* active rows
SkippedLinePool ==
    { [ exists |-> TRUE,
        lines  |-> << "host,port,username,password,type,active", skipped,
                      "10.0.0.1,8080,,,http,true",
                      "10.0.0.2,8080,,,http,true" >> ] :
        skipped \in { "10.0.0.4,80", "" } }

FilePool ==
    { [ exists |-> FALSE, lines |-> << >> ], [ exists |-> TRUE, lines |-> << >> ] }
    \cup
    { [ exists |-> TRUE, lines |-> << h >> \o rows ] :
        h \in HeaderPool, rows \in SeqUpTo(RowPool, MaxRows) }
    \cup SkippedLinePool

InitProxy ==
    /\ PipelineStart(<< >>, 1, BatchNet)
    /\ impl \in { "go", "php" }
    /\ file \in FilePool
    /\ \E arg \in ArgPool : px = StartRun(arg, 1, << >>)
    /\ ExtraIdle

NextProxy ==
    \/ DirectFetch
    \/ LoadProxies
    \/ SkipInactive
    \/ ProxyFetch
    \/ Mark
    \/ LoopEnd
    \/ NextRun

SpecProxy == InitProxy /\ [][NextProxy]_vars

(***************************************************************************)
(* The direct fetch in the three programs: checkDomain of part_003 on one  *)
(* domain, statement by statement, and runs of either prototype            *)
(***************************************************************************)
\* processDomainsConcurrently is not running
PipelineOff ==
    /\ domains = << >>
    /\ maxConcurrency = 1
    /\ net = BatchNet
    /\ mainPc = "off"
    /\ di = 1
    /\ wg = 0
    /\ sem = 0
    /\ resultChan = << >>
    /\ chanClosed = FALSE
    /\ closerPc = "none"
    /\ results = << >>
    /\ w = << >>

\* proxies.csv is missing, or holds an inactive and an active proxy
DirectFilePool ==
    { [ exists |-> FALSE, lines |-> << >> ],
      [ exists |-> TRUE,
        lines  |-> << "host,port,username,password,type,active",
                      "10.0.0.3,3128,,,http,false",
                      "10.0.0.1,8080,,,http,true" >> ] }

InitDirect ==
    \/ InitSteps
    \/ /\ PipelineOff
       /\ impl \in { "go", "php" }
       /\ file \in DirectFilePool
       /\ \E arg \in ArgPool : px = StartRun(arg, 1, << >>)
       /\ ExtraIdle

NextDirect == NextSteps \/ NextProxy

SpecDirect == InitDirect /\ [][NextDirect]_vars

(***************************************************************************)
(* Two processes of a prototype at the same time: each has had 403 on the  *)
(* direct fetch and goes through its proxy loop over the one proxies.csv.  *)
(* markProxyAsInactive reads the file, and then creates it anew (which     *)
(* empties it) and writes it; no statement of either prototype locks the   *)
(* file, so the steps of the two processes interleave freely.              *)
(***************************************************************************)
MaxSharedRows == 2

Procs == 1..2

\* proxies.csv with a header and n rows of six fields, any of them active
SharedFilePool ==
    { [ exists |-> TRUE,
        lines  |-> << "host,port,username,password,type,active" >> \o
                   [ k \in 1..n |->
                       "10.0.0." \o CharAt(DigitChars, k + 1) \o ",8080,,,http," \o
                       (IF k \in on THEN "true" ELSE "false") ] ] :
        n \in 1..MaxSharedRows, on \in SUBSET (1..MaxSharedRows) }

\* process p stands at pc
At(p, pc) == cw.procs[p].pc = pc

\* proxies, err := loadProxies("proxies.csv") in process p
SharedLoad(p) ==
    /\ At(p, "load")
    /\ LET l == loadProxies(file, impl) IN
         IF (impl = "go" /\ l.err # Nil) \/ (impl = "php" /\ Len(l.proxies) = 0)
         THEN cw' = [cw EXCEPT !.procs[p].pc = "done"]
         ELSE cw' = [cw EXCEPT !.procs[p].pc = "loop",
                               !.procs[p].proxies = l.proxies]
    /\ UNCHANGED << pipelineVars, proxyVars, cl >>

\* process p passes over a proxy that is not active in its list
SharedSkip(p) ==
    /\ At(p, "loop")
    /\ cw.procs[p].i <= Len(cw.procs[p].proxies)
    /\ ~Usable(cw.procs[p].proxies[cw.procs[p].i])
    /\ cw' = [cw EXCEPT !.procs[p].i = @ + 1]
    /\ UNCHANGED << pipelineVars, proxyVars, cl >>

\* process p fetches through proxy i of its list; cw.stale keeps the
\* fetches through a proxy whose deactivation by the other process was
\* complete
SharedFetch(p) ==
    /\ At(p, "loop")
    /\ cw.procs[p].i <= Len(cw.procs[p].proxies)
    /\ Usable(cw.procs[p].proxies[cw.procs[p].i])
    /\ \E out \in fetchUrl("https://a.co", ProxyNet, impl) :
         LET k    == cw.procs[p].i
             late == IF \E q \in Procs \ {p} : << q, k >> \in cw.done
                     THEN { << p, k >> } ELSE {}
         IN  cw' = [cw EXCEPT !.procs[p].pc = IF out.err # Nil THEN "read" ELSE "done",
                               !.stale = @ \cup late]
    /\ UNCHANGED << pipelineVars, proxyVars, cl >>

\* markProxyAsInactive in process p, up to the end of the read: the flag in
\* the list (Go), the records of the file as it is now, the record at
\* index+1 changed
SharedRead(p) ==
    /\ At(p, "read")
    /\ LET m == markProxyAsInactive(cw.procs[p].proxies, cw.procs[p].i, file, impl)
       IN  cw' = [cw EXCEPT !.procs[p].pc = "create",
                             !.procs[p].proxies = m.proxies,
                             !.procs[p].buf = m.file.lines]
    /\ UNCHANGED << pipelineVars, proxyVars, cl >>

\* os.Create(filename) / the fopen of file_put_contents: the file is empty
SharedCreate(p) ==
    /\ At(p, "create")
    /\ file' = [file EXCEPT !.lines = << >>]
    /\ cw' = [cw EXCEPT !.procs[p].pc = "write"]
    /\ UNCHANGED << pipelineVars, impl, px, cl >>

\* writer.WriteAll(records) / the write of file_put_contents: the call is
\* complete and the loop goes on
SharedWrite(p) ==
    /\ At(p, "write")
    /\ file' = [file EXCEPT !.lines = cw.procs[p].buf]
    /\ cw' = [cw EXCEPT !.procs[p].pc = "loop",
                         !.procs[p].i = @ + 1,
                         !.done = @ \cup { << p, cw.procs[p].i >> }]
    /\ UNCHANGED << pipelineVars, impl, px, cl >>

\* the loop of process p is over
SharedEnd(p) ==
    /\ At(p, "loop")
    /\ cw.procs[p].i > Len(cw.procs[p].proxies)
    /\ cw' = [cw EXCEPT !.procs[p].pc = "done"]
    /\ UNCHANGED << pipelineVars, proxyVars, cl >>

InitShared ==
    /\ PipelineStart(<< >>, 1, BatchNet)
    /\ impl \in { "go", "php" }
    /\ file \in SharedFilePool
    /\ px = PxOff
    /\ cl = ClOff
    /\ cw = [ procs |-> [ p \in Procs |->
                           [ pc |-> "load", proxies |-> << >>, i |-> 1,
                             buf |-> << >> ] ],
              done |-> {}, stale |-> {}, start |-> file ]

NextShared ==
    \/ \E p \in Procs : SharedLoad(p)
    \/ \E p \in Procs : SharedSkip(p)
    \/ \E p \in Procs : SharedFetch(p)
    \/ \E p \in Procs : SharedRead(p)
    \/ \E p \in Procs : SharedCreate(p)
    \/ \E p \in Procs : SharedWrite(p)
    \/ \E p \in Procs : SharedEnd(p)

SpecShared == InitShared /\ [][NextShared]_vars

(***************************************************************************)
(* Classification alone: each of the three programs classifies every body  *)
(* made of at most MaxFragments fragments.  prog is "main" for             *)
(* src/unnamed/part_003, "go" and "php" for the prototypes.                *)
(***************************************************************************)
MaxFragments == 2

\* pieces of a page: markers in lower and in upper case, generator tags
\* with a version inside and outside the accepted range and in single
\* quotes, assets with ver= parameters, assets of plugins, text
Fragments ==
    { "<link href=\"/wp-content/themes/astra/s.css\">",
      "<img src=\"/WP-CONTENT/PLUGINS/SEO/I.PNG\">",
      "<meta name=\"generator\" content=\"WordPress 6.2\">",
      "<meta name=\"generator\" content=\"WordPress 3.9\">",
      "<meta name='generator' content='WordPress 5.1'>",
      "<script src=\"/wp-includes/js/wp-embed.min.js?ver=5.8\">",
      "<link href=\"/a.css?ver=4.7\">",
      "<link href=\"/wp-admin/b.css?ver=2.1\">",
      "<meta name=\"generator\" content=\"Elementor 4.12.1\">",
      "<script src=\"/wp-content/plugins/foo/a.js\"></script>",
      "<link href=\"/wp-content/plugins/bar/b.css\"><link href=\"/wp-content/plugins/foo/c.css\">",
      "<p>hello</p>" }

Bodies == { Join(fs, "") : fs \in SeqUpTo(Fragments, MaxFragments) }

Progs == { "main", "go", "php" }

\* the result before the classification
Unclassified(prog) ==
    IF prog = "main" THEN NewResult("a.co") ELSE NewDomainResult("https://a.co")

\* the results the classification of body can give in prog: the last
\* statements of checkDomain after an answer of status 200, and
\* processResult / processWordPressData on a new result
Classified(prog, body) ==
    IF prog = "main"
    THEN { AfterClassify([EnterCheckDomain("a.co") EXCEPT
                            !.pc = "classify",
                            !.req = [ finalURL |-> "https://a.co",
                                      statusCode |-> 200, body |-> body,
                                      err |-> Nil ]]).result }
    ELSE processResult(Unclassified(prog), body, prog)

ClassifyBody ==
    /\ cl.pc = "body"
    /\ \E r \in Classified(cl.prog, cl.body) :
          cl' = [cl EXCEPT !.pc = "done", !.result = r]
    /\ UNCHANGED << pipelineVars, proxyVars, cw >>

InitClassify ==
    /\ PipelineStart(<< >>, 1, BatchNet)
    /\ impl = "go"
    /\ file = [ exists |-> FALSE, lines |-> << >> ]
    /\ px = PxOff
    /\ cw = CwOff
    /\ \E prog \in Progs, body \in Bodies :
          cl = [ prog |-> prog, pc |-> "body", body |-> body,
                 result |-> Unclassified(prog) ]

NextClassify == ClassifyBody

SpecClassify == InitClassify /\ [][NextClassify]_vars

(***************************************************************************)
(* Properties of processDomainsConcurrently and checkDomain                *)
(***************************************************************************)
\* statements of checkDomain: the call has started and has not returned
Evaluating == { "validate", "lookup", "request", "retry", "classify" }
\* statements after checkDomain has returned
Returned == { "send", "release", "done", "exit" }

InFlight == { i \in Workers : w[i].pc \in Evaluating }

\* goroutines that exist and have not run their deferred <-sem
HoldingSlot == { i \in Workers : w[i].pc \in Evaluating \cup { "send", "release" } }

\* the number of indices of seq whose element satisfies Test
Count(seq, Test(_)) == Cardinality({ k \in 1..Len(seq) : Test(seq[k]) })

\* C1: in every reachable state the number of checkDomain evaluations that
\* have started and not yet finished is at most the concurrency cap.
C1_InFlightAtMostCap == Cardinality(InFlight) <= maxConcurrency

\* C1 witness: the batch is larger than the cap, the cap is reached and the
\* calling goroutine stands blocked on sem with a domain left to start.
C1_Witness ==
    /\ Len(domains) > maxConcurrency
    /\ mainPc = "acquire"
    /\ sem = maxConcurrency
    /\ Cardinality(InFlight) = maxConcurrency

\* C2: when processDomainsConcurrently returns, the results are as many as
\* the input domains, their Domain fields are the input domains with the
\* same multiplicities, and every result is what one goroutine's checkDomain
\* returned, with the same multiplicity: none lost, none duplicated.
C2_OneResultPerDomain ==
    mainPc = "returned" =>
        /\ Len(results) = Len(domains)
        /\ \A d \in DomainPool :
              LET IsD(x) == x = d
                  HasD(r) == r.Domain = d
              IN  Count(results, HasD) = Count(domains, IsD)
        /\ \A k \in 1..Len(results) :
              LET Same(r) == r = results[k]
              IN  Count(results, Same) =
                     Cardinality({ i \in Workers : w[i].result = results[k] })

\* C2 witness: a batch of two has returned, one domain having failed the
\* structural check and the other having gone through to a request.
C2_Witness ==
    /\ mainPc = "returned"
    /\ Len(results) = 2
    /\ \E j, k \in 1..2 :
          /\ ~results[j].DomainIsValid
          /\ results[k].DomainHasDNSRecord
          /\ results[k].ResponseTime # ""

\* C3: a slot is taken before an evaluation starts and given back on every
\* way it ends: the elements of sem are exactly the goroutines that exist
\* and have not run their deferred release, plus the slot taken for the
\* goroutine about to be created; once every evaluation of the batch has
\* ended and released, sem is empty.
C3_SlotsHeldByRunning ==
    /\ sem = Cardinality(HoldingSlot) + (IF mainPc = "go" THEN 1 ELSE 0)
    /\ ( /\ mainPc \in { "collect", "returned" }
         /\ \A i \in Workers : w[i].pc \in { "done", "exit" } ) => sem = 0

\* C3 witness: both evaluations of a batch of two have ended, one after a
\* failed validation and one after a failed request, and no slot is held.
C3_Witness ==
    /\ Len(domains) = 2
    /\ \A i \in Workers : w[i].pc \in { "done", "exit" }
    /\ \E i, j \in Workers :
          /\ ~w[i].result.DomainIsValid
          /\ w[j].req.err # Nil
    /\ sem = 0

IsGet(c)    == c.call = "Get"
IsLookup(c) == c.call = "LookupHost"
Gets(i)     == SelectSeq(w[i].log, IsGet)

\* C4: a domain that fails the structural check or the lookup ends the
\* evaluation at once: the result has errors, is not WordPress and no
\* request was made; the lookup is made only after the structural check
\* has passed, and a request only after a successful lookup.
C4_ValidationShortCircuits ==
    \A i \in Workers :
        LET lg     == w[i].log
            failed == \/ ~isValidDomain(domains[i])
                      \/ \E k \in 1..Len(lg) : IsLookup(lg[k]) /\ lg[k].err # Nil
        IN  /\ failed =>
                  /\ Len(Gets(i)) = 0
                  /\ w[i].pc \notin { "request", "retry", "classify" }
            /\ (failed /\ w[i].pc \in Returned) =>
                  /\ w[i].result.Errors # << >>
                  /\ ~w[i].result.IsWordPress
            /\ \A k \in 1..Len(lg) :
                  /\ IsLookup(lg[k]) => k = 1 /\ isValidDomain(domains[i])
                  /\ IsGet(lg[k]) => k >= 2 /\ IsLookup(lg[1]) /\ lg[1].err = Nil

\* C4 witness: the lookup of a well-formed domain has failed and checkDomain
\* has returned.
C4_Witness ==
    \E i \in Workers :
        /\ w[i].pc = "send"
        /\ isValidDomain(domains[i])
        /\ Len(w[i].log) = 1
        /\ w[i].log[1].err # Nil

\* the request failed on the verification of the certificate chain
IsTlsFailure(c) == Contains(c.err, CauseX509)

RunAt(n) == { j \in 1..Len(px.trace) : px.trace[j].run = n }

IsProxyFetch(e) == e.op = "fetch" /\ e.via > 0

\* an entry of the proxy stage: the list is loaded, a proxy is tried or
\* deactivated
IsProxyStage(e) == e.op = "load" \/ e.op = "mark" \/ IsProxyFetch(e)

\* the direct fetch of run n completed with status 403
DirectBlocked(n) ==
    /\ RunAt(n) # {}
    /\ LET e == px.trace[Min(RunAt(n))]
       IN  e.op = "fetch" /\ e.via = 0 /\ e.ok /\ e.status = 403

\* C6: the proxy stage is entered only after a direct fetch that completed
\* with status 403: in every run in which the proxy list was loaded or a proxy
\* was tried or deactivated, and whenever the run stands in the proxy stage,
\* the direct fetch of that run completed with 403.
C6_ProxyStageOnlyOn403 ==
    /\ \A j \in 1..Len(px.trace) :
          IsProxyStage(px.trace[j]) => DirectBlocked(px.trace[j].run)
    /\ px.pc \in { "load", "loop", "mark" } => DirectBlocked(px.run)

\* C6 witness: a first run whose direct fetch completed with another status
\* ended without touching the proxies, and a second run whose direct fetch
\* completed with 403 has tried a proxy.
C6_Witness ==
    /\ px.run = 2
    /\ px.trace[1].ok /\ px.trace[1].status = 301
    /\ \A j \in RunAt(1) : ~IsProxyStage(px.trace[j])
    /\ \E j \in RunAt(2) : IsProxyFetch(px.trace[j])

\* the proxy list the prototype would load from proxies.csv as it is now
\* shows proxy k inactive
InactiveInSource(k) ==
    LET l == loadProxies(file, impl)
    IN  l.err = Nil /\ k <= Len(l.proxies) /\ ~l.proxies[k].Active

\* proxy k of run n is inactive: in the list of the run or in proxies.csv
Deactivated(k, n) ==
    \/ n = px.run /\ k <= Len(px.proxies) /\ ~px.proxies[k].Active
    \/ InactiveInSource(k)

\* every failed fetch through a proxy is followed by the deactivation call
\* for that proxy, and the loop goes on with a later proxy
FailureAdvances ==
    \A j \in 1..Len(px.trace) :
        LET e == px.trace[j] IN
        (IsProxyFetch(e) /\ ~e.ok) =>
            /\ IF j = Len(px.trace) THEN px.pc = "mark" /\ px.i = e.via
               ELSE /\ px.trace[j + 1].op = "mark"
                    /\ px.trace[j + 1].via = e.via
                    /\ px.trace[j + 1].run = e.run
            /\ \A k \in (j + 1)..Len(px.trace) :
                  (IsProxyFetch(px.trace[k]) /\ px.trace[k].run = e.run)
                      => px.trace[k].via > e.via

\* a completed answer through a proxy is classified, ends the run and is
\* the result of the run
AnswerEndsLoop ==
    \A j \in 1..Len(px.trace) :
        LET e == px.trace[j] IN
        (IsProxyFetch(e) /\ e.ok) =>
            /\ j + 1 = Max(RunAt(e.run))
            /\ px.trace[j + 1].op = "classify"
            /\ px.trace[j + 1].via = e.via
            /\ e.run = px.run =>
                  /\ px.pc = "done"
                  /\ px.result.StatusCode = e.status
                  /\ px.result.ProxyUsed = ProxyName(px.proxies[e.via])
                  /\ px.result.IsWordPress =
                        (\E k \in 1..Len(wpIndicators) :
                            Contains(e.body, wpIndicators[k]))

\* every proxy markProxyAsInactive was called for is inactive afterwards
MarkedIsDeactivated ==
    \A j \in 1..Len(px.trace) :
        px.trace[j].op = "mark" => Deactivated(px.trace[j].via, px.trace[j].run)

\* C7: in the proxy loop a failed fetch through a proxy deactivates that
\* proxy and the loop goes on with the next one; the first completed answer
\* through a proxy, whatever its status, ends the loop, becomes the result
\* and is classified, and no later proxy is tried.
C7_FailureDeactivatesAnswerEnds ==
    FailureAdvances /\ AnswerEndsLoop /\ MarkedIsDeactivated

\* a fetch through a proxy of run n has completed
ProxyAnswered(n) ==
    \E j \in RunAt(n) : IsProxyFetch(px.trace[j]) /\ px.trace[j].ok

\* C8: when the direct fetch completed with 403 and the run has ended without
\* a completed answer through any proxy, the result carries status 403 and
\* an error text, and classification was not run: is_wordpress is false and
\* version, theme and plugins are empty.
C8_ExhaustionReports403 ==
    (px.pc = "done" /\ DirectBlocked(px.run) /\ ~ProxyAnswered(px.run)) =>
        /\ px.result.StatusCode = 403
        /\ px.result.Error # ""
        /\ ~px.result.IsWordPress
        /\ px.result.WPVersion = ""
        /\ px.result.WPTheme = ""
        /\ px.result.WPPlugins = << >>
        /\ \A j \in RunAt(px.run) : px.trace[j].op # "classify"

\* C8 witness: the direct answer was 403 with a body that carries a WordPress
\* indicator, the fetch through every active proxy failed and the run has
\* ended after the loop.
C8_Witness ==
    /\ px.pc = "done"
    /\ DirectBlocked(px.run)
    /\ Contains(px.trace[Min(RunAt(px.run))].body, "wp-login.php")
    /\ \E j \in RunAt(px.run) : px.trace[j].op = "mark"
    /\ ~ProxyAnswered(px.run)
    /\ px.result.Error = "All proxies failed or returned 403"

\* the entry of the load of run n
LoadOf(n) == px.trace[CHOOSE j \in RunAt(n) : px.trace[j].op = "load"]

\* C9: no fetch is made through a proxy whose active flag is false: the flag
\* of the proxy in the list of the run is true at the moment of every fetch
\* through it, it was loaded as active, and no fetch through a proxy follows
\* its deactivation in the same run.
C9_NoFetchThroughInactive ==
    \A j \in 1..Len(px.trace) :
        LET e == px.trace[j] IN
        IsProxyFetch(e) =>
            /\ e.active
            /\ LoadOf(e.run).loaded[e.via].Active
            /\ \A k \in 1..(j - 1) :
                  ~(px.trace[k].op = "mark" /\ px.trace[k].run = e.run
                      /\ px.trace[k].via = e.via)

\* C9 witness: the first proxy of the list was loaded as inactive, the
\* second one was tried and deactivated, and the run has ended with no fetch
\* through the first.
C9_Witness ==
    /\ px.pc = "done"
    /\ Len(px.proxies) = 2
    /\ ~LoadOf(px.run).loaded[1].Active
    /\ \E j \in RunAt(px.run) : px.trace[j].op = "mark" /\ px.trace[j].via = 2
    /\ \A j \in RunAt(px.run) : IsProxyFetch(px.trace[j]) => px.trace[j].via = 2

\* q is the descriptor p with the flag false
SameButInactive(p, q) == q = [p EXCEPT !.Active = FALSE]

\* C10: after markProxyAsInactive was called for a proxy whose fetch failed,
\* every load of proxies.csv, in the same run or a later one, gives the
\* descriptor of that proxy with active false, whatever the file holds.
C10_DeactivationPersists ==
    \A j \in 1..Len(px.trace) :
        LET e == px.trace[j]
            l == loadProxies(file, impl)
        IN  e.op = "mark" =>
              /\ l.err = Nil
              /\ e.via <= Len(l.proxies)
              /\ SameButInactive(LoadOf(e.run).loaded[e.via], l.proxies[e.via])
              /\ \A k \in (j + 1)..Len(px.trace) :
                    px.trace[k].op = "load" =>
                        /\ e.via <= Len(px.trace[k].loaded)
                        /\ ~px.trace[k].loaded[e.via].Active

\* the rows of proxies.csv: its lines as fields, blank lines left out
RowsOf(f) == CsvRecords(f.lines)

\* the row of proxy k of the loaded list: the k-th row of six fields or more
\* after the header
RowOfProxy(rows, k) ==
    { r \in 2..Len(rows) :
        /\ HasSixFields(rows[r])
        /\ Cardinality({ q \in 2..r : HasSixFields(rows[q]) }) = k }

\* row q is row p but for the sixth field
SameButFlag(p, q) ==
    /\ Len(p) = Len(q)
    /\ \A c \in 1..Len(p) : c # 6 => p[c] = q[c]

\* C11: deactivating proxy P changes nothing in proxies.csv except the
\* activity field of the row of P: the header, the number and the order of
\* the rows, every field of every other row and the other fields of the row
\* of P are after markProxyAsInactive what they were before it.
C11_DeactivationFrame ==
    [][ px.pc = "mark" =>
          LET before == RowsOf(file)
              after  == RowsOf(file')
          IN  /\ file'.exists = file.exists
              /\ Len(after) = Len(before)
              /\ \A r \in 1..Len(before) :
                    IF r \in RowOfProxy(before, px.i)
                    THEN SameButFlag(before[r], after[r])
                    ELSE after[r] = before[r] ]_vars

\* the result of the run names a proxy
NamesProxy == px.result.ProxyUsed # ""

\* the answer of entry e is what the result holds: status, headers, and the
\* body as the one that was classified
AdoptedFrom(e) ==
    /\ px.result.StatusCode = e.status
    /\ px.result.Headers = e.headers
    /\ px.result.IsWordPress =
          (\E k \in 1..Len(wpIndicators) : Contains(e.body, wpIndicators[k]))

\* C14: in the result of a run that has ended, ProxyUsed is not empty only
\* if a fetch through that proxy completed and its status, headers and body
\* are the ones of the result; it is empty when the direct answer was
\* taken, when the direct fetch failed and when no proxy answered.
C14_ProxyUsedOnlyWhenAdopted ==
    px.pc = "done" =>
        /\ NamesProxy =>
              \E j \in RunAt(px.run) :
                  LET e == px.trace[j] IN
                  /\ IsProxyFetch(e) /\ e.ok
                  /\ px.result.ProxyUsed = ProxyName(px.proxies[e.via])
                  /\ AdoptedFrom(e)
        /\ (\A j \in RunAt(px.run) : ~(IsProxyFetch(px.trace[j]) /\ px.trace[j].ok))
              => ~NamesProxy

\* C14 witness: the direct answer was 403, the first proxy failed, the
\* second one answered with headers, and the result names the second one.
C14_Witness ==
    /\ px.pc = "done"
    /\ NamesProxy
    /\ px.result.Headers # {}
    /\ \E j \in RunAt(px.run) : px.trace[j].op = "mark" /\ px.trace[j].via = 1
    /\ \E j \in RunAt(px.run) :
          IsProxyFetch(px.trace[j]) /\ px.trace[j].ok /\ px.trace[j].via = 2

(***************************************************************************)
(* Properties of two processes over one proxies.csv                        *)
(***************************************************************************)
\* both processes have ended
AllEnded == \A p \in Procs : At(p, "done")

\* proxies.csv has the header and the rows it started with, but for the
\* flags
WellFormed ==
    /\ file.exists
    /\ Len(file.lines) = Len(cw.start.lines)
    /\ \A r \in 1..Len(file.lines) :
          IF r = 1 THEN file.lines[r] = cw.start.lines[r]
          ELSE SameButFlag(CsvFields(cw.start.lines[r]), CsvFields(file.lines[r]))

\* row k of proxies.csv is there and its flag is false
RowInactive(k) ==
    /\ k + 1 <= Len(file.lines)
    /\ HasSixFields(CsvFields(file.lines[k + 1]))
    /\ CsvFields(file.lines[k + 1])[6] = "false"

\* C12: when two processes deactivate proxies at the same time, the same
\* one or two different ones, then under every interleaving of their
\* reads and writes of proxies.csv the file ends well-formed and holds
\* every deactivation: no update is lost, no row is damaged or dropped.
C12_ConcurrentDeactivations ==
    AllEnded =>
        /\ WellFormed
        /\ \A d \in cw.done : RowInactive(d[2])

\* C13: a process never fetches through a proxy whose deactivation by the
\* other process was complete before the fetch, also when it has loaded
\* its list before that deactivation.
C13_LatestStatusObserved == cw.stale = {}

(***************************************************************************)
(* Properties of the classification                                        *)
(***************************************************************************)
\* the markers of the program that classifies
MarkersOf(prog) == IF prog = "main" THEN Markers ELSE wpIndicators

\* a marker of the program occurs in the body, in letters of either case
MarkerMatched ==
    \E k \in 1..Len(MarkersOf(cl.prog)) :
        Contains(ToLower(cl.body), MarkersOf(cl.prog)[k])

\* the fields of the result
VersionOf  == IF cl.prog = "main" THEN cl.result.WordPressVersion
              ELSE cl.result.WPVersion
EvidenceOf == IF cl.prog = "main" THEN cl.result.WordPressEvidences ELSE ""
ThemeOf    == IF cl.prog = "main" THEN "" ELSE cl.result.WPTheme
PluginsOf  == IF cl.prog = "main" THEN << >> ELSE cl.result.WPPlugins

\* C15: is_wordpress of a result is true if and only if a marker matched in
\* the body that was classified, in letters of either case; a result for
\* which no body was classified has is_wordpress false.
C15_DetectedIffMarker ==
    /\ cl.pc = "body" => ~cl.result.IsWordPress
    /\ cl.pc = "done" => (cl.result.IsWordPress <=> MarkerMatched)

\* C16: a result with is_wordpress false has an empty version, evidence,
\* theme and plugin list, also when the body holds a generator tag or ver=
\* parameters.
C16_UndetectedIsEmpty ==
    ~cl.result.IsWordPress =>
        /\ VersionOf = ""
        /\ EvidenceOf = ""
        /\ ThemeOf = ""
        /\ PluginsOf = << >>

\* C16 witness: a body with a generator tag and a ver= parameter and no
\* marker has been classified as not WordPress.
C16_Witness ==
    /\ cl.pc = "done"
    /\ ~cl.result.IsWordPress
    /\ Contains(cl.body, "content=\"WordPress 6.2\"")
    /\ Contains(cl.body, "?ver=4.7")

\* the versions of the generator tags of the body that pass the format check
ValidGeneratorVersions ==
    LET all == FindAllSubmatch(cl.body, GeneratorPattern("WordPress"), 12)
    IN  { all[k] : k \in { j \in 1..Len(all) : isValidVersion(all[j]) } }

\* the version of the first generator tag the program recognises
FirstGenerator ==
    IF cl.prog = "main"
    THEN FindSubmatch(cl.body, GeneratorPattern("WordPress"), 12)
    ELSE FindSubmatch(cl.body, versionPatterns(cl.prog)[1].pat,
                      versionPatterns(cl.prog)[1].group)

\* C17 as stated: for every body with a generator tag of an acceptable
\* version the classification reports that version, whatever ver=
\* parameters the body holds and wherever they stand.
C17_GeneratorAlwaysReported ==
    (cl.pc = "done" /\ ValidGeneratorVersions # {})
        => VersionOf \in ValidGeneratorVersions

\* C17: for every body that is classified as WordPress and whose first
\* generator tag, in the form the program recognises, has an acceptable
\* version, the classification reports that version, whatever ver=
\* parameters the body holds and wherever they stand.
C17_GeneratorFirst ==
    (cl.pc = "done" /\ cl.result.IsWordPress
       /\ FirstGenerator # NoMatch /\ isValidVersion(FirstGenerator))
        => VersionOf = FirstGenerator

\* C17 witness: the wp-embed script with ver=5.8 stands before the
\* generator tag of version 6.2, and 6.2 is reported.
C17_Witness ==
    /\ cl.pc = "done"
    /\ cl.result.IsWordPress
    /\ HasPrefix(cl.body, "<script src=\"/wp-includes/js/wp-embed.min.js?ver=5.8\">")
    /\ FirstGenerator = "6.2"
    /\ VersionOf = "6.2"

\* no version candidate of the body passes the format check: the matches
\* of the five version patterns
NoValidCandidate ==
    \A k \in 1..Len(VersionPatterns) :
        LET all == FindAllSubmatch(cl.body, VersionPatterns[k].pat,
                                   VersionPatterns[k].group)
        IN  \A j \in 1..Len(all) : ~isValidVersion(all[j])

\* C18: when a marker matched and no version candidate of the body passes
\* the format check, the result is WordPress with the version "Unknown";
\* a result that is WordPress never has an empty version.
C18_UnknownWhenNoValidVersion ==
    cl.pc = "done" =>
        /\ (MarkerMatched /\ NoValidCandidate) =>
              (cl.result.IsWordPress /\ VersionOf = "Unknown")
        /\ cl.result.IsWordPress => VersionOf # ""

(***************************************************************************)
(* Properties of the direct fetch                                          *)
(***************************************************************************)
\* the request of goroutine i has returned a completed answer
Answered(i) == w[i].req.hops # << >> /\ w[i].req.err = Nil

\* text is one of the errors of the result of goroutine i
HasError(i, text) ==
    \E k \in 1..Len(w[i].result.Errors) : w[i].result.Errors[k] = text

\* the entry of the direct fetch of run n
DirectOf(n) == px.trace[Min(RunAt(n))]

\* the checker: an answer of a status other than 403 is classified next,
\* is_wordpress tells whether a marker is in its body, and the status adds
\* the error "status code N" exactly when it is not 200
DirectClassifiedMain ==
    \A i \in Workers :
        (Answered(i) /\ w[i].req.statusCode # 403) =>
            /\ w[i].pc \in { "classify" } \cup Returned
            /\ w[i].pc \in Returned =>
                  /\ w[i].result.IsWordPress =
                        (\E k \in 1..Len(Markers) :
                            Contains(ToLower(w[i].req.body), Markers[k]))
                  /\ HasError(i, "status code " \o StatusText(w[i].req.statusCode))
                        <=> w[i].req.statusCode # 200

\* the prototypes: an answer of a status other than 403 is classified next
\* and ends the run with no proxy stage and no error, is_wordpress telling
\* whether an indicator is in its body
DirectClassifiedProxy ==
    \A n \in 1..px.run :
        (RunAt(n) # {} /\ DirectOf(n).ok /\ DirectOf(n).status # 403) =>
            /\ Cardinality(RunAt(n)) = 2
            /\ px.trace[Max(RunAt(n))].op = "classify"
            /\ px.trace[Max(RunAt(n))].body = DirectOf(n).body
            /\ n = px.run =>
                  /\ px.pc = "done"
                  /\ px.result.StatusCode = DirectOf(n).status
                  /\ px.result.Error = ""
                  /\ px.result.IsWordPress =
                        (\E k \in 1..Len(wpIndicators) :
                            Contains(DirectOf(n).body, wpIndicators[k]))

\* C19: whenever the direct fetch returns a completed answer whose status
\* is not 403 (200, a redirect, 404, 500), the body of that answer is
\* classified next and is_wordpress of the result tells the markers of that
\* body; a status other than 200 adds at most an error text and never
\* keeps the body from being classified.
C19_DirectAnswerClassified == DirectClassifiedMain /\ DirectClassifiedProxy

\* C19 witness: the checker has returned a result for an answer of status
\* 404 whose body carries a marker, with is_wordpress true and the error
\* of the status.
C19_Witness ==
    \E i \in Workers :
        /\ w[i].pc \in Returned
        /\ Answered(i)
        /\ w[i].req.statusCode = 404
        /\ w[i].result.IsWordPress
        /\ HasError(i, "status code 404")

\* a status of a redirect
IsRedirect(statusCode) == statusCode \in 300..399

\* the checker: a first answer that is a redirect is the only answer the
\* request has fetched, and the result tells its status
NotFollowedMain ==
    \A i \in Workers :
        (w[i].req.hops # << >> /\ IsRedirect(w[i].req.hops[1].statusCode)) =>
            /\ Len(w[i].req.hops) = 1
            /\ w[i].pc \in Returned =>
                  HasError(i, "status code " \o StatusText(w[i].req.hops[1].statusCode))

\* the prototypes: the result of a run whose direct answer is a redirect
\* has the status of that answer and, when the answer has a location
\* header, the value of that header as redirect location
RedirectSurfacedProxy ==
    (px.pc = "done" /\ RunAt(px.run) # {} /\ DirectOf(px.run).ok
       /\ IsRedirect(DirectOf(px.run).status)) =>
        /\ px.result.StatusCode = DirectOf(px.run).status
        /\ \A h \in DirectOf(px.run).headers :
              h[1] = LocationKey(impl) => px.result.RedirectLocation = h[2]

\* C20: redirects are never followed: when the target answers with a 3xx
\* status, one request is made for that fetch, the result has that status,
\* and for every 3xx status with a location header the redirect location
\* of the result is the value of that header.
C20_RedirectsNotFollowed == NotFollowedMain /\ RedirectSurfacedProxy

(***************************************************************************)
(* Further properties of the proxy prototypes                              *)
(***************************************************************************)
\* proxies.csv cannot be loaded: it is missing, or (Go) loadProxies
\* returns an error
LoadFails == ~file.exists \/ loadProxies(file, impl).err # Nil

\* C21: when proxies.csv cannot be loaded after a direct answer of status
\* 403, no proxy is tried or deactivated, the run goes on to its end, and
\* the result it gives has status 403 and an error that tells of the
\* proxies.
C21_LoadFailureReported ==
    (DirectBlocked(px.run) /\ LoadFails) =>
        /\ px.pc \in { "load", "done" }
        /\ \A j \in RunAt(px.run) :
              ~IsProxyFetch(px.trace[j]) /\ px.trace[j].op # "mark"
        /\ px.pc = "done" =>
              /\ px.result.StatusCode = 403
              /\ Contains(px.result.Error, "proxies")
              /\ ~px.result.IsWordPress

\* C21 witness: proxies.csv is missing, the direct answer was 403 and the
\* run has ended after the attempt to load the list.
C21_Witness ==
    /\ ~file.exists
    /\ px.pc = "done"
    /\ DirectBlocked(px.run)
    /\ \E j \in RunAt(px.run) : px.trace[j].op = "load"
    /\ px.result.Error # ""

(***************************************************************************)
(* Further properties of checkDomain                                       *)
(***************************************************************************)
\* checkDomain of goroutine i has returned after an answer of status 200
\* whose body holds no marker
PlainAnswer(i) ==
    /\ w[i].pc \in Returned
    /\ Answered(i)
    /\ w[i].req.statusCode = 200
    /\ ~\E k \in 1..Len(Markers) : Contains(ToLower(w[i].req.body), Markers[k])

\* C22 as stated: for every valid, resolvable domain whose fetch returns
\* status 200 with a body that holds no marker, the result has
\* is_wordpress false and no errors.
C22_PlainAnswerNoErrors ==
    \A i \in Workers :
        PlainAnswer(i) =>
            ~w[i].result.IsWordPress /\ w[i].result.Errors = << >>

\* C22: for every valid, resolvable domain whose first request returns
\* status 200 with a body that holds no marker and has text other than
\* white space outside its tags, the result has is_wordpress false and no
\* errors.
C22_PlainTextAnswerNoErrors ==
    \A i \in Workers :
        (PlainAnswer(i) /\ Len(Gets(i)) = 1 /\ ~isBlankScreen(w[i].req.body)) =>
            ~w[i].result.IsWordPress /\ w[i].result.Errors = << >>

\* C22 witness: checkDomain has returned for a domain whose only request
\* was answered with status 200 and the page <html><body>Hello</body></html>.
C22_Witness ==
    \E i \in Workers :
        /\ PlainAnswer(i)
        /\ Len(Gets(i)) = 1
        /\ w[i].req.body = BodyPlain
        /\ w[i].result.DomainIsValid /\ w[i].result.DomainHasDNSRecord
        /\ w[i].result.Errors = << >>

(***************************************************************************)
(* Further properties of the classification                                *)
(***************************************************************************)
\* the positions right after the occurrences of /wp-content/plugins/ in
\* the body
PluginPaths ==
    { i + Len("/wp-content/plugins/") :
        i \in { j \in 1..Len(cl.body) : LitAt(cl.body, j, "/wp-content/plugins/") } }

\* the directory names under /wp-content/plugins/ in the body: what stands
\* between an occurrence of that path and the next "/"
PluginDirs ==
    { SubSeq(cl.body, b,
             Min({ j \in b..Len(cl.body) : CharAt(cl.body, j) = "/" }
                 \cup { Len(cl.body) + 1 }) - 1) : b \in PluginPaths } \ { "" }

\* C23: for every body classified as WordPress the plugin list holds each
\* directory name that occurs under /wp-content/plugins/ in the body once,
\* however often the name occurs, and nothing else.
C23_PluginsDistinct ==
    (cl.pc = "done" /\ cl.prog # "main" /\ cl.result.IsWordPress) =>
        /\ { PluginsOf[k] : k \in 1..Len(PluginsOf) } = PluginDirs
        /\ Len(PluginsOf) = Cardinality(PluginDirs)

\* C23 witness: /wp-content/plugins/ occurs three times in the body, twice
\* with the name foo and once with bar, and the list has two names.
C23_Witness ==
    /\ cl.pc = "done"
    /\ cl.prog # "main"
    /\ cl.result.IsWordPress
    /\ Cardinality(PluginPaths) = 3
    /\ PluginDirs = { "foo", "bar" }
    /\ Len(PluginsOf) = 2

(***************************************************************************)
(* Rows of proxies.csv that are too short                                  *)
(***************************************************************************)
\* the last thing the prototype did to proxies.csv was to load it, so the
\* file is as loadProxies read it
JustLoaded ==
    /\ px.pc \in { "loop", "done" }
    /\ Len(px.trace) > 0
    /\ px.trace[Len(px.trace)].op = "load"
    /\ px.trace[Len(px.trace)].run = px.run

\* a line of the file with the six fields of a proxy
SixFieldLine(line) == Len(CsvFields(line)) >= 6

\* the lines under the header that have six fields, in file order
SixFieldLines == SelectSeq(Tail(file.lines), SixFieldLine)

\* a line under the header has fewer than six fields
HasShortLine ==
    \E r \in 2..Len(file.lines) : ~SixFieldLine(file.lines[r])

\* C24: loading proxies.csv passes over every row of fewer than six fields
\* and returns all the rows of six fields in file order; a short row never
\* aborts the load or empties the list.
C24_ShortRowsSkipped ==
    (JustLoaded /\ file.exists /\ Len(file.lines) > 0) =>
        LET loaded == px.trace[Len(px.trace)].loaded IN
        /\ ~Contains(px.result.Error, "Failed to load proxies")
        /\ Len(loaded) = Len(SixFieldLines)
        /\ \A k \in 1..Len(loaded) :
              LET fields == CsvFields(SixFieldLines[k]) IN
              /\ loaded[k].Host = fields[1]
              /\ loaded[k].Port = fields[2]
              /\ loaded[k].Type = fields[5]

(***************************************************************************)
(* Termination of processDomainsConcurrently                               *)
(***************************************************************************)
\* C25: for every batch and every cap of at least one, every checkDomain
\* call returning, processDomainsConcurrently returns in the end: the
\* calling goroutine waiting for a slot, the goroutines sending their
\* results and the collecting loop never block one another for good.
C25_EventuallyReturns == <>(mainPc = "returned")

\* C25 witness: a batch of more domains than the cap has been collected and
\* the function has returned with every slot free and no goroutine left.
C25_Witness ==
    /\ mainPc = "returned"
    /\ Len(domains) > maxConcurrency
    /\ Len(results) = Len(domains)
    /\ sem = 0
    /\ wg = 0
    /\ closerPc = "done"

(***************************************************************************)
(* The order of the version patterns                                       *)
(***************************************************************************)
\* the five patterns in the order stated: generator tag of WordPress,
\* wp-embed, wp-emoji-release, any asset, generator tag of Elementor, each
\* with its capturing atom and the label the evidence begins with
StatedPatterns ==
    << [pat |-> GeneratorPattern("WordPress"), group |-> 12,
        label |-> "meta generator: "],
       [pat |-> << Lit("/wp-includes/js/wp-embed.min.js?ver="), Plus(VerChar) >>,
        group |-> 2, label |-> "wp-embed.min.js: "],
       [pat |-> << Lit("wp-emoji-release.min.js?ver="), Plus(VerChar) >>,
        group |-> 2, label |-> "wp-emoji-release.min.js: "],
       [pat |-> << Lit("?ver="), Plus(VerChar) >>,
        group |-> 2, label |-> "asset version: "],
       [pat |-> GeneratorPattern("Elementor"), group |-> 12,
        label |-> "elementor meta generator: "] >>

\* the candidate of stated pattern k: its capture in the leftmost match
StatedCandidate(k) ==
    FindSubmatch(cl.body, StatedPatterns[k].pat, StatedPatterns[k].group)

\* the stated patterns whose candidate passes the format check
Passing ==
    { k \in 1..Len(StatedPatterns) :
        StatedCandidate(k) # NoMatch /\ isValidVersion(StatedCandidate(k)) }

\* C26: the version reported for a body classified as WordPress is the
\* candidate of the earliest of the five patterns whose candidate passes
\* the format check, and the evidence names that pattern; a candidate that
\* fails the check counts as no match, and no later pattern overrides an
\* earlier one that passed.
C26_EarliestValidPatternWins ==
    (cl.pc = "done" /\ cl.prog = "main" /\ cl.result.IsWordPress /\ Passing # {})
        => /\ VersionOf = StatedCandidate(Min(Passing))
           /\ HasPrefix(EvidenceOf, StatedPatterns[Min(Passing)].label)

\* C26 witness: the generator tag has version 3.9, which fails the check,
\* the wp-embed script has ver=5.8, which is also the first match of the
\* asset pattern; 5.8 is reported as found by the wp-embed pattern.
C26_Witness ==
    /\ cl.pc = "done"
    /\ cl.prog = "main"
    /\ cl.result.IsWordPress
    /\ StatedCandidate(1) = "3.9"
    /\ Passing = { 2, 4 }
    /\ VersionOf = "5.8"
    /\ HasPrefix(EvidenceOf, "wp-embed.min.js: ")

(***************************************************************************)
(* A direct fetch that gets no answer                                      *)
(***************************************************************************)
\* the checker: when the last request of checkDomain has failed, the text
\* of the failure is among the errors and the result is not WordPress; a
\* failure other than one of the certificate is followed by no other
\* request
DirectErrorRecordedMain ==
    \A i \in Workers :
        (w[i].pc \in Returned /\ Len(Gets(i)) > 0 /\ w[i].req.err # Nil) =>
            /\ HasError(i, w[i].req.err)
            /\ ~w[i].result.IsWordPress
            /\ ~Contains(Gets(i)[1].err, "x509") => Len(Gets(i)) = 1

\* the prototypes: a run whose direct fetch failed holds nothing but that
\* fetch (the list is not loaded, no proxy is tried or deactivated, nothing
\* is classified) and ends with the error in a result that is not WordPress
DirectErrorRecordedProxy ==
    \A n \in 1..px.run :
        (RunAt(n) # {} /\ ~DirectOf(n).ok) =>
            /\ Cardinality(RunAt(n)) = 1
            /\ n = px.run =>
                  /\ px.pc = "done"
                  /\ px.result.Error # ""
                  /\ ~px.result.IsWordPress
                  /\ px.result.ProxyUsed = ""

\* C27: a direct fetch that ends in a network error, with no answer, is
\* recorded in the result and nothing more: proxies.csv is not read, no
\* proxy is tried or deactivated, and the result is not WordPress.
C27_DirectErrorOnlyRecorded ==
    DirectErrorRecordedMain /\ DirectErrorRecordedProxy

\* C27 witness: proxies.csv holds an active proxy, the direct fetch of the
\* prototype was refused and the run has ended with the error.
C27_Witness ==
    /\ px.pc = "done"
    /\ file.exists
    /\ \E r \in 2..Len(file.lines) : SixFieldLine(file.lines[r])
            /\ CsvFields(file.lines[r])[6] = "true"
    /\ RunAt(px.run) # {}
    /\ ~DirectOf(px.run).ok
    /\ DirectOf(px.run).status = 0
    /\ px.result.Error # ""

(***************************************************************************)
(* The order of the proxy loop                                             *)
(***************************************************************************)
\* the fetches through a proxy in run n, as positions of the trace
ProxyFetchesOf(n) == { j \in RunAt(n) : IsProxyFetch(px.trace[j]) }

\* the fetch through proxy k failed in run n
FailedThrough(k, n) ==
    \E j \in ProxyFetchesOf(n) : px.trace[j].via = k /\ ~px.trace[j].ok

\* the proxies are tried in the order of the list, each one at most once,
\* and the list of a run that tried a proxy is in the order of the file
TriedInFileOrder ==
    /\ \A n \in 1..px.run :
          LET fetches == ProxyFetchesOf(n)
          IN  \A j, k \in fetches : j < k => px.trace[j].via < px.trace[k].via
    /\ (px.pc \in { "mark", "done" } /\ file.exists
          /\ ProxyFetchesOf(px.run) # {}) =>
           LET rows == SixFieldLines IN
           /\ Len(px.proxies) = Len(rows)
           /\ \A k \in 1..Len(px.proxies) :
                 LET fields == CsvFields(rows[k]) IN
                 /\ px.proxies[k].Host = fields[1]
                 /\ px.proxies[k].Port = fields[2]

\* markProxyAsInactive is called right after a failed fetch through the
\* proxy it is called for, and never after an answer through a proxy
MarkedAfterOwnFailure ==
    /\ \A j \in 1..Len(px.trace) :
          px.trace[j].op = "mark" =>
              /\ j > 1
              /\ IsProxyFetch(px.trace[j - 1])
              /\ ~px.trace[j - 1].ok
              /\ px.trace[j - 1].via = px.trace[j].via
              /\ px.trace[j - 1].run = px.trace[j].run
    /\ \A j, k \in 1..Len(px.trace) :
          (IsProxyFetch(px.trace[j]) /\ px.trace[j].ok /\ j < k
             /\ px.trace[k].run = px.trace[j].run)
              => px.trace[k].op = "classify"

\* the list as it was loaded in this run (empty before the load)
LoadedNow ==
    IF \E j \in RunAt(px.run) : px.trace[j].op = "load"
    THEN LoadOf(px.run).loaded ELSE << >>

\* proxy k of the list loaded in this run was active when it was loaded and
\* is inactive now, in the list or in its row of proxies.csv
TurnedInactive(k) ==
    /\ LoadedNow[k].Active
    /\ \/ k <= Len(px.proxies) /\ ~px.proxies[k].Active
       \/ /\ file.exists
          /\ LET rows == SixFieldLines
             IN  /\ k <= Len(rows)
                 /\ ~ActiveFlag(CsvFields(rows[k])[6], impl)

\* a proxy that has become inactive in this run is one the fetch through
\* which has failed in this run
DeactivatedHaveFailed ==
    (px.pc \in { "loop", "mark", "done" }) =>
        \A k \in 1..Len(LoadedNow) :
            FailedThrough(k, px.run) \/ ~TurnedInactive(k)

\* C28: for a domain that answered 403, the proxies are tried in the order
\* of proxies.csv, each active one at most once, and a proxy is deactivated
\* only after the fetch through that very proxy has failed in this run:
\* none without having been tried, none after an answer through a proxy.
C28_OrderedAndDeactivatedAfterFailure ==
    TriedInFileOrder /\ MarkedAfterOwnFailure /\ DeactivatedHaveFailed

\* C28 witness: the fetch through the first proxy failed and the proxy was
\* deactivated, the second proxy gave an answer, and the run has ended with
\* the first proxy inactive and the second one as it was.
C28_Witness ==
    /\ px.pc = "done"
    /\ Len(LoadedNow) = 2
    /\ \E j \in RunAt(px.run) :
          /\ j + 2 <= Len(px.trace)
          /\ IsProxyFetch(px.trace[j]) /\ px.trace[j].via = 1 /\ ~px.trace[j].ok
          /\ px.trace[j + 1].op = "mark" /\ px.trace[j + 1].via = 1
          /\ IsProxyFetch(px.trace[j + 2]) /\ px.trace[j + 2].via = 2
          /\ px.trace[j + 2].ok
    /\ TurnedInactive(1)
    /\ ~TurnedInactive(2)

====
